---------------------------- MODULE Spec2Model ----------------------------
(***************************************************************************)
(* A model of ipa-builder: the repackaging pipeline generate_ipa           *)
(* (src/src/ipa_logic.rs) and the directory watcher AutoCheckRunner        *)
(* (src/src/autocheck.rs).                                                 *)
(*                                                                         *)
(* Strings are sequences of one-character strings, so that trimming,       *)
(* lower-casing, prefix/suffix tests and path joining are computed the     *)
(* way the code computes them.  A directory tree is a set of nodes         *)
(* [path, dir], a path being a sequence of names.                          *)
(***************************************************************************)
EXTENDS Integers, Sequences, FiniteSets, TLC

(***************************************************************************)
(* Characters and strings                                                  *)
(***************************************************************************)

\* The characters the model uses, in ASCII order.
AsciiOrder ==
  << " ", "-", ".", "/",
     "A", "B", "C", "D", "E", "F", "G", "H", "I", "J", "K", "L", "M",
     "N", "O", "P", "Q", "R", "S", "T", "U", "V", "W", "X", "Y", "Z",
     "\\",
     "a", "b", "c", "d", "e", "f", "g", "h", "i", "j", "k", "l", "m",
     "n", "o", "p", "q", "r", "s", "t", "u", "v", "w", "x", "y", "z" >>

CharCode(c) == CHOOSE i \in 1..Len(AsciiOrder) : AsciiOrder[i] = c

IsUpper(c) == c \in {AsciiOrder[i] : i \in 5..30}

\* u8::to_ascii_lowercase: 'A'..'Z' map to 'a'..'z', everything else is kept.
LowerChar(c) == IF IsUpper(c) THEN AsciiOrder[CharCode(c) + 27] ELSE c

\* str::to_ascii_lowercase.
to_ascii_lowercase(s) == [i \in 1..Len(s) |-> LowerChar(s[i])]

\* str::to_lowercase; on the ASCII characters of the model it is the ASCII map.
to_lowercase(s) == [i \in 1..Len(s) |-> LowerChar(s[i])]

starts_with(s, p) == Len(p) <= Len(s) /\ SubSeq(s, 1, Len(p)) = p

ends_with(s, p) ==
  Len(p) <= Len(s) /\ SubSeq(s, Len(s) - Len(p) + 1, Len(s)) = p

contains(s, c) == \E i \in 1..Len(s) : s[i] = c

RECURSIVE trim_start(_)
trim_start(s) ==
  IF s # << >> /\ Head(s) = " " THEN trim_start(Tail(s)) ELSE s

RECURSIVE trim_end(_)
trim_end(s) ==
  IF s # << >> /\ s[Len(s)] = " " THEN trim_end(SubSeq(s, 1, Len(s) - 1)) ELSE s

\* str::trim: leading and trailing white space removed.
trim(s) == trim_end(trim_start(s))

\* Lexicographic order of strings by character code (str's Ord).
RECURSIVE StrLess(_, _)
StrLess(a, b) ==
  IF b = << >> THEN FALSE
  ELSE IF a = << >> THEN TRUE
  ELSE IF Head(a) # Head(b) THEN CharCode(Head(a)) < CharCode(Head(b))
  ELSE StrLess(Tail(a), Tail(b))

\* Lexicographic order of paths, component by component (Path's Ord).
RECURSIVE PathLess(_, _)
PathLess(p, q) ==
  IF q = << >> THEN FALSE
  ELSE IF p = << >> THEN TRUE
  ELSE IF Head(p) # Head(q) THEN StrLess(Head(p), Head(q))
  ELSE PathLess(Tail(p), Tail(q))

(***************************************************************************)
(* Names                                                                   *)
(***************************************************************************)

sPayload    == << "P", "a", "y", "l", "o", "a", "d" >>
sInfoPlist  == << "I", "n", "f", "o", ".", "p", "l", "i", "s", "t" >>
sRunnerApp  == << "R", "u", "n", "n", "e", "r", ".", "a", "p", "p" >>
sRunner     == << "R", "u", "n", "n", "e", "r" >>
sSomeFolder == << "S", "o", "m", "e", "F", "o", "l", "d", "e", "r" >>
sMyProjectApp == << "M", "y", "P", "r", "o", "j", "e", "c", "t", ".", "a", "p", "p" >>
sMyProject  == << "M", "y", "P", "r", "o", "j", "e", "c", "t" >>
sReadme     == << "r", "e", "a", "d", "m", "e", ".", "t", "x", "t" >>
sAApp       == << "A", ".", "a", "p", "p" >>
sBApp       == << "B", ".", "a", "p", "p" >>
sXApp       == << "X", ".", "a", "p", "p" >>
sSubApp     == << "S", "u", "b", ".", "a", "p", "p" >>
sD          == << "d" >>
sApp        == << "a", "p", "p" >>
sDotIpa     == << ".", "i", "p", "a" >>
sDotZip     == << ".", "z", "i", "p" >>
sRunnerAppLower == << "r", "u", "n", "n", "e", "r", ".", "a", "p", "p" >>
sPayloadSlash == << "P", "a", "y", "l", "o", "a", "d", "/" >>
sAppInfoPlist ==
  << ".", "a", "p", "p", "/", "I", "n", "f", "o", ".", "p", "l", "i", "s", "t" >>


(***************************************************************************)
(* Directory trees                                                         *)
(***************************************************************************)

Dir(p)  == [path |-> p, dir |-> TRUE]
File(p) == [path |-> p, dir |-> FALSE]

\* Runner.app with Info.plist at the root of the archive (the first test).
TreeRunner ==
  { Dir(<<sRunnerApp>>), File(<<sRunnerApp, sInfoPlist>>),
    File(<<sRunnerApp, sRunner>>) }

\* SomeFolder/MyProject.app (the nested test).
TreeNested ==
  { Dir(<<sSomeFolder>>), Dir(<<sSomeFolder, sMyProjectApp>>),
    File(<<sSomeFolder, sMyProjectApp, sInfoPlist>>),
    File(<<sSomeFolder, sMyProjectApp, sMyProject>>) }

\* No bundle at all (the not-found test).
TreeNoApp == { File(<<sReadme>>) }

\* Two qualifying sibling bundles.
TreeTwo ==
  { Dir(<<sAApp>>), File(<<sAApp, sInfoPlist>>),
    Dir(<<sBApp>>), File(<<sBApp, sInfoPlist>>) }

\* A bundle whose Info.plist is a directory, holding a nested genuine bundle.
TreeDirMarker ==
  { Dir(<<sXApp>>), Dir(<<sXApp, sInfoPlist>>),
    Dir(<<sXApp, sSubApp>>), File(<<sXApp, sSubApp, sInfoPlist>>) }

\* A bundle at depth 3 (its marker at depth 4).
TreeDepth3 ==
  { Dir(<<sD>>), Dir(<<sD, sD>>), Dir(<<sD, sD, sAApp>>),
    File(<<sD, sD, sAApp, sInfoPlist>>) }

\* A bundle at depth 4 only.
TreeDepth4 ==
  { Dir(<<sD>>), Dir(<<sD, sD>>), Dir(<<sD, sD, sD>>),
    Dir(<<sD, sD, sD, sAApp>>), File(<<sD, sD, sD, sAApp, sInfoPlist>>) }

\* A .app directory without the marker, and a .app that is a file.
TreeNoMarker ==
  { Dir(<<sAApp>>), File(<<sAApp, sReadme>>), File(<<sBApp>>) }

Trees ==
  { TreeRunner, TreeNested, TreeNoApp, TreeTwo, TreeDirMarker, TreeDepth3,
    TreeDepth4, TreeNoMarker }

FileName(p) == p[Len(p)]

Parent(p) == SubSeq(p, 1, Len(p) - 1)

NamesOf(tree) == {FileName(n.path) : n \in tree}

ExistsIn(tree, p) == \E n \in tree : n.path = p

\* The nodes at or below path p.
Subtree(tree, p) == {n \in tree : starts_with(n.path, p)}

Height(tree) == IF tree = {} THEN 0 ELSE
  CHOOSE h \in {Len(n.path) : n \in tree} : \A n \in tree : Len(n.path) <= h

\* The orders in which a directory's entries can be listed: read_dir gives no
\* order, so every ranking of the names is possible.
RECURSIVE Rankings(_)
Rankings(names) ==
  IF names = {} THEN { << >> }
  ELSE UNION { { [y \in names |-> IF y = x THEN Cardinality(names) ELSE f[y]] :
                   f \in Rankings(names \ {x}) } : x \in names }

Orders(tree) == Rankings(NamesOf(tree))

\* Path::extension: what follows the last '.' of the file name; none when the
\* name has no '.', or only a leading one.
Extension(name) ==
  LET dots == {i \in 1..Len(name) : name[i] = "."} IN
  IF dots = {} THEN << >>
  ELSE LET last == CHOOSE i \in dots : \A j \in dots : j <= i IN
       IF last = 1 THEN << >> ELSE SubSeq(name, last + 1, Len(name))

\* WalkDir visits a directory before its contents, and siblings in listing
\* order: the entry at path p is met before the entry at path q when p is an
\* ancestor of q, or when, where the two paths part, p's component is listed
\* first.
IsProperPrefix(p, q) == Len(p) < Len(q) /\ SubSeq(q, 1, Len(p)) = p

VisitedBefore(p, q, ord) ==
  \/ IsProperPrefix(p, q)
  \/ \E i \in 1..Len(p) :
       /\ i <= Len(q)
       /\ SubSeq(p, 1, i - 1) = SubSeq(q, 1, i - 1)
       /\ p[i] # q[i]
       /\ ord[p[i]] < ord[q[i]]

\* WalkDir below directory p: the entries under p whose path has at most maxd
\* components, in the order they are visited.
WalkBelow(tree, p, maxd, ord) ==
  LET nodes == {n \in tree : IsProperPrefix(p, n.path) /\ Len(n.path) <= maxd}
  IN  [i \in 1..Cardinality(nodes) |->
         CHOOSE n \in nodes :
           Cardinality({m \in nodes : VisitedBefore(m.path, n.path, ord)}) = i - 1]

(***************************************************************************)
(* generate_ipa: pure parts                                                *)
(***************************************************************************)

\* WalkDir::max_depth of the bundle search.
MaxWalkDepth == 3

\* The test without the look for Info.plist.
QualifiesNoMarker(tree, n) == n.dir /\ Extension(FileName(n.path)) = sApp

\* The test of the bundle search: a directory with extension "app" that has an
\* entry Info.plist (exists() holds for a file and for a directory).
Qualifies(tree, n) ==
  /\ n.dir
  /\ Extension(FileName(n.path)) = sApp
  /\ ExistsIn(tree, n.path \o <<sInfoPlist>>)

\* A search that goes one level deeper.
SearchWalkDeeper(tree, ord) == WalkBelow(tree, << >>, MaxWalkDepth + 1, ord)

\* The entries the bundle search visits, in order.
SearchWalk(tree, ord) == WalkBelow(tree, << >>, MaxWalkDepth, ord)

\* A search without the break: the last qualifying entry of the walk.
LocateBundleLast(tree, ord) ==
  LET walk == SearchWalk(tree, ord)
      hits == {i \in 1..Len(walk) : Qualifies(tree, walk[i])}
  IN  IF hits = {} THEN << >>
      ELSE walk[CHOOSE i \in hits : \A j \in hits : j <= i].path

\* The bundle search: the first qualifying entry of the walk, << >> for none.
LocateBundle(tree, ord) ==
  LET walk == SearchWalk(tree, ord)
      hits == {i \in 1..Len(walk) : Qualifies(tree, walk[i])}
  IN  IF hits = {} THEN << >>
      ELSE walk[CHOOSE i \in hits : \A j \in hits : i <= j].path

\* A copy that keeps the bundle's path inside the archive.
PayloadTreeKeepPath(tree, b) ==
  {Dir(<<sPayload>>)} \cup
  {[path |-> <<sPayload>> \o n.path, dir |-> n.dir] : n \in Subtree(tree, b)}

\* copy_dir_all(bundle, Payload/<bundle file name>) after create_dir_all(Payload):
\* the content of the build directory, paths relative to it.
PayloadTree(tree, b) ==
  {Dir(<<sPayload>>)} \cup
  {[path |-> <<sPayload, FileName(b)>> \o SubSeq(n.path, Len(b) + 1, Len(n.path)),
    dir  |-> n.dir] : n \in Subtree(tree, b)}

RECURSIVE JoinSlash(_)
JoinSlash(p) ==
  IF p = << >> THEN << >>
  ELSE IF Len(p) = 1 THEN p[1]
  ELSE p[1] \o <<"/">> \o JoinSlash(Tail(p))

\* An entry name that is the joined path, for a directory too.
zip_name_without_slash(relative_path, is_dir) == JoinSlash(relative_path)

zip_name_from_relative_path(relative_path, is_dir) ==
  LET s == JoinSlash(relative_path) IN
  IF is_dir /\ s # << >> /\ ~ends_with(s, <<"/">>) THEN s \o <<"/">> ELSE s

\* A walk of the build that starts below Payload.
BuildWalkBelowPayload(tree, ord, lost) ==
  LET seen == {n \in tree : ~(\E l \in lost : starts_with(n.path, l) /\ n.path # l)}
  IN  WalkBelow(seen, <<sPayload>>, Height(tree), ord)

\* The walk of the archive build: Payload itself, then everything below it.
\* Entries the walk fails to read are dropped (filter_map(|e| e.ok())): when
\* directory `lost` cannot be listed, nothing below it is visited.
BuildWalk(tree, ord, lost) ==
  LET seen == {n \in tree : ~(\E l \in lost : starts_with(n.path, l) /\ n.path # l)}
  IN  <<Dir(<<sPayload>>)>>
        \o WalkBelow(seen, <<sPayload>>, Height(tree), ord)

\* Entry names made relative to the Payload directory instead of the build
\* directory.
RECURSIVE EntriesOfBelowPayload(_)
EntriesOfBelowPayload(walk) ==
  IF walk = << >> THEN << >>
  ELSE LET n == Head(walk)
           name == zip_name_from_relative_path(Tail(n.path), n.dir)
       IN  (IF name = << >> THEN << >> ELSE <<[name |-> name, dir |-> n.dir]>>)
             \o EntriesOfBelowPayload(Tail(walk))

RECURSIVE EntriesOf(_)
EntriesOf(walk) ==
  IF walk = << >> THEN << >>
  ELSE LET n == Head(walk)
           name == zip_name_from_relative_path(n.path, n.dir)
       IN  (IF name = << >> THEN << >> ELSE <<[name |-> name, dir |-> n.dir]>>)
             \o EntriesOf(Tail(walk))

\* A scan that accepts every archive.
HasPlistEntryAlways(entries) == TRUE

\* validate_generated_ipa's scan of the entry names.
HasPlistEntry(entries) ==
  \E i \in 1..Len(entries) :
     /\ starts_with(entries[i].name, sPayloadSlash)
     /\ ends_with(entries[i].name, sAppInfoPlist)

\* The name check with the extension compared as written.
NameInvalidCaseSensitive(ipa_file_name_str) ==
  \/ ipa_file_name_str = << >>
  \/ ~ends_with(ipa_file_name_str, sDotIpa)
  \/ contains(ipa_file_name_str, "/")
  \/ contains(ipa_file_name_str, "\\")

\* The name check of generate_ipa, on the trimmed name.
NameInvalid(ipa_file_name_str) ==
  \/ ipa_file_name_str = << >>
  \/ ~ends_with(to_lowercase(ipa_file_name_str), sDotIpa)
  \/ contains(ipa_file_name_str, "/")
  \/ contains(ipa_file_name_str, "\\")

(***************************************************************************)
(* Requests                                                                *)
(***************************************************************************)

nGood      == << "a", ".", "i", "p", "a" >>
nOther     == << "b", ".", "i", "p", "a" >>
nUpper     == << "A", ".", "I", "P", "A" >>
nPadded    == << " ", "a", ".", "i", "p", "a", " " >>
nZip       == << "a", ".", "z", "i", "p" >>
nEmpty     == << >>
nBlank     == << " ", " " >>
nSlash     == << "d", "/", "a", ".", "i", "p", "a" >>
nBackslash == << "d", "\\", "a", ".", "i", "p", "a" >>

OutputNames ==
  { nGood, nOther, nUpper, nPadded, nZip, nEmpty, nBlank, nSlash, nBackslash }

\* A call of generate_ipa: whether the input zip exists and is a readable
\* archive, the tree it unpacks to, whether output_dir is a directory, and
\* config.output_ipa_name.
Req(t, n) ==
  [inputExists |-> TRUE, zipOk |-> TRUE, tree |-> t, outDirOk |-> TRUE, name |-> n]

Requests ==
  {Req(t, nGood) : t \in Trees}
    \cup {Req(TreeRunner, n) : n \in OutputNames}
    \cup {Req(TreeTwo, nOther), Req(TreeNoApp, nZip)}
    \cup { [Req(TreeRunner, nGood) EXCEPT !.inputExists = FALSE],
           [Req(TreeRunner, nGood) EXCEPT !.outDirOk = FALSE],
           [Req(TreeRunner, nGood) EXCEPT !.zipOk = FALSE] }

\* How many times generate_ipa is called directly, and how many I/O
\* operations fail, in one behaviour.
MaxCalls == 2
MaxFaults == 1

(***************************************************************************)
(* State                                                                   *)
(***************************************************************************)

VARIABLES
  gpc,         \* where generate_ipa is: "idle", a step, or "returned"
  cfg,         \* the request of the call in progress
  extractDir,  \* extract_temp_dir: [state, tree]
  buildDir,    \* ipa_build_temp_dir: [state, tree]
  bundle,      \* app_bundle_to_payload, << >> before it is found
  outFiles,    \* the files of output_dir: a set of [name, entries, complete]
  outBefore,   \* outFiles when the call started
  prevCall,    \* the request of the call before, when that call returned a path
  gresult,     \* what the call returned: [ok, err, path]
  fsWork,      \* the filesystem work the call has done so far
  calls,       \* calls made so far
  nFaults,     \* I/O failures so far
  listing      \* the order in which the bundle search just made listed the entries

gvars ==
  << gpc, cfg, extractDir, buildDir, bundle, outFiles, outBefore, prevCall, gresult,
     fsWork, calls, nFaults, listing >>

VARIABLES
  runner,      \* the AutoCheckRunner: "none", "error", "handle", "joining" (in stop), "stopped",
               \* "stopping" (in a later stop), "dropped"
  wcfg,        \* the AutoCheckConfig given to start
  tpc,         \* where the background thread is
  stopFlag,    \* stop_flag
  stopAt,      \* how many messages had been sent when stop() stored the flag (None before)
  rxAlive,     \* whether the Receiver of the status channel still exists
  chan,        \* the status channel: messages sent and not yet received
  sent,        \* every send so far, in order: [kind, path, ok]
  events,      \* event_rx: what the notifier has reported and the loop not yet taken
  nEvents,     \* events reported so far
  paths,       \* the paths of the event being processed that are still to do
  fileEnv,     \* the watched directory: name -> the states [kind, size, openable]
               \* in which a look at the file can find it
  wait         \* wait_until_file_ready's locals and result

wvars ==
  << runner, wcfg, tpc, stopFlag, stopAt, rxAlive, chan, sent, events, nEvents, paths,
     fileEnv, wait >>

VARIABLES
  zpc,         \* where the archive loop is: "next", "body", "end" or "returned"
  znode,       \* the entry the walk of Payload has yielded: [path, dir, bytes]
  zentry       \* what the loop body wrote for it: [name, dir, method, mode]

zvars == << zpc, znode, zentry >>

VARIABLES
  inv,         \* two calls of generate_ipa running at once: call -> its locals
  tmpDirs,     \* the system's temporary directory: name -> [state, tree]
  outDir       \* output_dir, shared by the two calls: file name -> the file

pvars == << inv, tmpDirs, outDir >>

VARIABLES
  app_configs, \* the application list of the GUI: the output_ipa_name of each entry
  app_ids,     \* .. and the id of each entry
  nAdded,      \* applications added so far
  show_edit_dialog_for_idx,     \* the index the Edit dialog is open for, or None
  show_delete_confirm_for_idx,  \* the index the Confirm Delete dialog is open for, or None
  editTarget,  \* the id of the entry the Edit button was clicked on
  deleteTarget \* the id of the entry the Delete button was clicked on

uvars ==
  << app_configs, app_ids, nAdded, show_edit_dialog_for_idx,
     show_delete_confirm_for_idx, editTarget, deleteTarget >>

vars == << gvars, wvars, zvars, pvars, uvars >>

NoDir == [state |-> "none", tree |-> {}]

NoResult == [ok |-> FALSE, err |-> "none", path |-> << >>]

Err(e) == [ok |-> FALSE, err |-> e, path |-> << >>]

Ok(p) == [ok |-> TRUE, err |-> "none", path |-> p]

\* No call before, or one that returned an error.
NoCall == [inputExists |-> FALSE]

GenInit ==
  /\ gpc = "idle"
  /\ cfg = Req(TreeRunner, nGood)
  /\ extractDir = NoDir
  /\ buildDir = NoDir
  /\ bundle = << >>
  /\ outFiles = {}
  /\ outBefore = {}
  /\ prevCall = NoCall
  /\ gresult = NoResult
  /\ fsWork = {}
  /\ calls = 0
  /\ nFaults = 0
  /\ listing = << >>

\* A temporary directory that is kept when its owner goes out of scope.
DropTempDirKeep(d) == d

\* TempDir's Drop: the directory and everything in it is removed.
DropTempDir(d) ==
  IF d.state = "exists" THEN [state |-> "removed", tree |-> {}] ELSE d

\* A return of generate_ipa, by `?`, `return` or at the end: the locals
\* extract_temp_dir and ipa_build_temp_dir go out of scope.
Return(res) ==
  /\ gpc' = "returned"
  /\ gresult' = res
  /\ extractDir' = DropTempDir(extractDir)
  /\ buildDir' = DropTempDir(buildDir)

\* A call that starts by removing the archive an earlier call left.
EnterRemovingOldOutput(request) ==
  /\ gpc' = "check"
  /\ cfg' = request
  /\ extractDir' = NoDir
  /\ buildDir' = NoDir
  /\ bundle' = << >>
  /\ outBefore' = outFiles
  /\ prevCall' = IF gpc = "returned" /\ gresult.ok THEN cfg ELSE NoCall
  /\ gresult' = NoResult
  /\ fsWork' = {}
  /\ listing' = << >>
  /\ outFiles' = {f \in outFiles : f.name # trim(request.name)}

\* The state a call starts in.
Enter(request) ==
  /\ gpc' = "check"
  /\ cfg' = request
  /\ extractDir' = NoDir
  /\ buildDir' = NoDir
  /\ bundle' = << >>
  /\ outBefore' = outFiles
  /\ prevCall' = IF gpc = "returned" /\ gresult.ok THEN cfg ELSE NoCall
  /\ gresult' = NoResult
  /\ fsWork' = {}
  /\ listing' = << >>
  /\ UNCHANGED outFiles

\* The file output_dir/<name>, when there is one.
OutFile(dir, name) == {f \in dir : f.name = name}

\* A write that replaces an unfinished file of the same name only, and adds
\* the file beside a finished one.
WriteOutBeside(dir, name, entries, complete) ==
  (dir \ {f \in OutFile(dir, name) : ~f.complete})
    \cup {[name |-> name, entries |-> entries, complete |-> complete]}

\* A write that leaves the file alone in the directory.
WriteOutAlone(dir, name, entries, complete) ==
  {[name |-> name, entries |-> entries, complete |-> complete]}

\* A write that removes the file when it is not finished.
WriteOutDropPartial(dir, name, entries, complete) ==
  IF complete
  THEN (dir \ OutFile(dir, name))
         \cup {[name |-> name, entries |-> entries, complete |-> complete]}
  ELSE dir \ OutFile(dir, name)

WriteOut(dir, name, entries, complete) ==
  (dir \ OutFile(dir, name))
    \cup {[name |-> name, entries |-> entries, complete |-> complete]}

(***************************************************************************)
(* generate_ipa, step by step                                              *)
(***************************************************************************)

\* An I/O operation fails (fail = TRUE) only while the budget of failures lasts.
Fault(fail) ==
  /\ fail => nFaults < MaxFaults
  /\ nFaults' = IF fail THEN nFaults + 1 ELSE nFaults

\* A direct call (the Generate button of the GUI, or a test).
GenCall ==
  /\ gpc \in {"idle", "returned"}
  /\ tpc = "none"
  /\ calls < MaxCalls
  /\ \E request \in Requests : Enter(request)
  /\ calls' = calls + 1
  /\ UNCHANGED nFaults
  /\ UNCHANGED <<wvars, zvars, pvars, uvars>>

\* A check of the input path only.
GenCheckRequestInputOnly ==
  /\ gpc = "check"
  /\ IF ~cfg.inputExists THEN Return(Err("InputFileNotFound"))
     ELSE gpc' = "mkExtract" /\ UNCHANGED <<gresult, extractDir, buildDir>>
  /\ UNCHANGED <<cfg, bundle, outFiles, outBefore, prevCall, fsWork, calls, nFaults, listing>>
  /\ UNCHANGED <<wvars, zvars, pvars, uvars>>

\* The checks of the input path and the output directory.
GenCheckRequest ==
  /\ gpc = "check"
  /\ IF ~cfg.inputExists THEN Return(Err("InputFileNotFound"))
     ELSE IF ~cfg.outDirOk THEN Return(Err("OutputDirectoryInvalid"))
     ELSE gpc' = "mkExtract" /\ UNCHANGED <<gresult, extractDir, buildDir>>
  /\ UNCHANGED <<cfg, bundle, outFiles, outBefore, prevCall, fsWork, calls, nFaults, listing>>
  /\ UNCHANGED <<wvars, zvars, pvars, uvars>>

\* 1. tempdir() for the extraction.
GenCreateExtractDir ==
  /\ gpc = "mkExtract"
  /\ \E fail \in BOOLEAN :
       /\ Fault(fail)
       /\ IF fail
          THEN Return(Err("TempDir")) /\ UNCHANGED fsWork
          ELSE /\ gpc' = "extract"
               /\ extractDir' = [state |-> "exists", tree |-> {}]
               /\ fsWork' = fsWork \cup {"tempdir"}
               /\ UNCHANGED <<gresult, buildDir>>
  /\ UNCHANGED <<cfg, bundle, outFiles, outBefore, prevCall, calls, listing>>
  /\ UNCHANGED <<wvars, zvars, pvars, uvars>>

\* 2. File::open, ZipArchive::new, archive.extract.
GenExtract ==
  /\ gpc = "extract"
  /\ \E fail \in {"no", "open", "extract"} :
       /\ Fault(fail # "no")
       /\ IF fail = "open"
          THEN Return(Err("Io")) /\ UNCHANGED fsWork
          ELSE IF ~cfg.zipOk
          THEN Return(Err("Zip")) /\ UNCHANGED fsWork
          ELSE IF fail = "extract"
          THEN Return(Err("Zip")) /\ fsWork' = fsWork \cup {"extract"}
          ELSE /\ gpc' = "locate"
               /\ extractDir' = [extractDir EXCEPT !.tree = cfg.tree]
               /\ fsWork' = fsWork \cup {"extract"}
               /\ UNCHANGED <<gresult, buildDir>>
  /\ UNCHANGED <<cfg, bundle, outFiles, outBefore, prevCall, calls, listing>>
  /\ UNCHANGED <<wvars, zvars, pvars, uvars>>

\* 3. The bundle search.
GenLocate ==
  /\ gpc = "locate"
  /\ UNCHANGED <<wvars, zvars, pvars, uvars>>
  /\ \E fail \in BOOLEAN, ord \in Orders(extractDir.tree) :
       /\ listing' = ord
       /\ Fault(fail)
       /\ IF fail
          THEN Return(Err("WalkDir")) /\ UNCHANGED bundle
          ELSE IF LocateBundle(extractDir.tree, ord) = << >>
          THEN Return(Err("UnexpectedZipStructure")) /\ UNCHANGED bundle
          ELSE /\ gpc' = "mkBuild"
               /\ bundle' = LocateBundle(extractDir.tree, ord)
               /\ UNCHANGED <<gresult, extractDir, buildDir>>
  /\ UNCHANGED <<cfg, outFiles, outBefore, prevCall, fsWork, calls>>

\* 4. tempdir() for the build.
GenCreateBuildDir ==
  /\ gpc = "mkBuild"
  /\ \E fail \in BOOLEAN :
       /\ Fault(fail)
       /\ IF fail
          THEN Return(Err("TempDir")) /\ UNCHANGED fsWork
          ELSE /\ gpc' = "mkPayload"
               /\ buildDir' = [state |-> "exists", tree |-> {}]
               /\ fsWork' = fsWork \cup {"tempdir"}
               /\ UNCHANGED <<gresult, extractDir>>
  /\ listing' = << >>
  /\ UNCHANGED <<cfg, bundle, outFiles, outBefore, prevCall, calls>>
  /\ UNCHANGED <<wvars, zvars, pvars, uvars>>

\* 4. create_dir_all(Payload).
GenCreatePayload ==
  /\ gpc = "mkPayload"
  /\ \E fail \in BOOLEAN :
       /\ Fault(fail)
       /\ IF fail
          THEN Return(Err("PayloadCreationFailed")) /\ UNCHANGED fsWork
          ELSE /\ gpc' = "copy"
               /\ buildDir' = [buildDir EXCEPT !.tree = {Dir(<<sPayload>>)}]
               /\ fsWork' = fsWork \cup {"mkdir"}
               /\ UNCHANGED <<gresult, extractDir>>
  /\ UNCHANGED <<cfg, bundle, outFiles, outBefore, prevCall, calls, listing>>
  /\ UNCHANGED <<wvars, zvars, pvars, uvars>>

\* 5. copy_dir_all of the bundle into Payload.
GenCopy ==
  /\ gpc = "copy"
  /\ \E fail \in BOOLEAN :
       /\ Fault(fail)
       /\ IF fail
          THEN Return(Err("MoveToPayloadFailed"))
          ELSE /\ gpc' = "name"
               /\ buildDir' = [buildDir EXCEPT !.tree = PayloadTree(extractDir.tree, bundle)]
               /\ UNCHANGED <<gresult, extractDir>>
  /\ fsWork' = fsWork \cup {"copy"}
  /\ UNCHANGED <<cfg, bundle, outFiles, outBefore, prevCall, calls, listing>>
  /\ UNCHANGED <<wvars, zvars, pvars, uvars>>

\* 6. The check of the output name.
GenCheckName ==
  /\ gpc = "name"
  /\ IF NameInvalid(trim(cfg.name)) THEN Return(Err("InvalidIpaName"))
     ELSE gpc' = "create" /\ UNCHANGED <<gresult, extractDir, buildDir>>
  /\ UNCHANGED <<cfg, bundle, outFiles, outBefore, prevCall, fsWork, calls, nFaults, listing>>
  /\ UNCHANGED <<wvars, zvars, pvars, uvars>>

\* 6. File::create(output_dir/<name>): the file is created or truncated.
GenCreateOutput ==
  /\ gpc = "create"
  /\ \E fail \in BOOLEAN :
       /\ Fault(fail)
       /\ IF fail
          THEN Return(Err("Io")) /\ UNCHANGED <<outFiles, fsWork>>
          ELSE /\ gpc' = "build"
               /\ outFiles' = WriteOut(outFiles, trim(cfg.name), << >>, FALSE)
               /\ fsWork' = fsWork \cup {"create"}
               /\ UNCHANGED <<gresult, extractDir, buildDir>>
  /\ UNCHANGED <<cfg, bundle, outBefore, prevCall, calls, listing>>
  /\ UNCHANGED <<wvars, zvars, pvars, uvars>>

\* What the walk of the build can fail to list: nothing, or one directory.
LostChoices(tree) == {{}} \cup {{n.path} : n \in {m \in tree : m.dir}}

\* The walks the build can make: one per listing order and per loss.
BuildWalks(tree) ==
  { [seq |-> BuildWalk(tree, ord, lost), lost |-> lost] :
      ord \in Orders(tree), lost \in LostChoices(tree) }

\* 6. The walk of Payload, one entry per node, and zip_writer.finish().  A
\* failed read or write (an io::Error of File::open, read_to_end or write_all,
\* a ZipError of the writer) leaves the entries written so far in the file.
GenBuild ==
  /\ gpc = "build"
  /\ UNCHANGED <<wvars, zvars, pvars, uvars>>
  /\ \E walk \in BuildWalks(buildDir.tree) :
       LET entries == EntriesOf(walk.seq) IN
       \E done \in 0..Len(entries) :
          /\ Fault(walk.lost # {} \/ done < Len(entries))
          /\ IF done < Len(entries)
             THEN /\ \E e \in {"Io", "Zip"} : Return(Err(e))
                  /\ outFiles' = WriteOut(outFiles, trim(cfg.name),
                                          SubSeq(entries, 1, done), FALSE)
             ELSE /\ gpc' = "validate"
                  /\ outFiles' = WriteOut(outFiles, trim(cfg.name), entries, TRUE)
                  /\ UNCHANGED <<gresult, extractDir, buildDir>>
  /\ fsWork' = fsWork \cup {"write"}
  /\ UNCHANGED <<cfg, bundle, outBefore, prevCall, calls, listing>>

\* validate_generated_ipa, and the return of the path.
GenValidate ==
  /\ gpc = "validate"
  /\ LET f == CHOOSE x \in OutFile(outFiles, trim(cfg.name)) : TRUE IN
     \E fail \in BOOLEAN :
       /\ Fault(fail)
       /\ IF fail THEN Return(Err("Zip"))
          ELSE IF ~HasPlistEntry(f.entries) THEN Return(Err("InvalidIpaStructure"))
          ELSE Return(Ok(trim(cfg.name)))
  /\ UNCHANGED <<cfg, bundle, outFiles, outBefore, prevCall, fsWork, calls, listing>>
  /\ UNCHANGED <<wvars, zvars, pvars, uvars>>

GenStep ==
  \/ GenCheckRequest
  \/ GenCreateExtractDir
  \/ GenExtract
  \/ GenLocate
  \/ GenCreateBuildDir
  \/ GenCreatePayload
  \/ GenCopy
  \/ GenCheckName
  \/ GenCreateOutput
  \/ GenBuild
  \/ GenValidate

(***************************************************************************)
(* The watcher: pure parts                                                 *)
(***************************************************************************)

fRunnerZip ==
  << "R", "u", "n", "n", "e", "r", ".", "a", "p", "p", "-",
     "d", "e", "b", "u", "g", ".", "z", "i", "p" >>
fUpperZip ==
  << "R", "U", "N", "N", "E", "R", ".", "A", "P", "P", ".", "Z", "I", "P" >>
fNotesZip == << "n", "o", "t", "e", "s", ".", "z", "i", "p" >>
fNoZip    == << "R", "u", "n", "n", "e", "r", ".", "a", "p", "p" >>
fPrefixed ==
  << "x", "r", "u", "n", "n", "e", "r", ".", "a", "p", "p", ".", "z", "i", "p" >>
fPartial  ==
  << "r", "u", "n", "n", "e", "r", ".", "a", "p", "p", ".", "z", "i", "p",
     ".", "p", "a", "r", "t" >>

\* The files of the watched directory that the model follows.
WatchNames == { fRunnerZip, fUpperZip, fNotesZip }

\* The largest file size the model follows.
MaxSize == 2

Sizes == 0..MaxSize

\* The name test without the lower-casing.
NameMatchesCaseSensitive(file_name) ==
  starts_with(file_name, sRunnerAppLower) /\ ends_with(file_name, sDotZip)

\* The name test without the test of the extension.
NameMatchesPrefixOnly(file_name) ==
  LET lower == to_ascii_lowercase(file_name) IN
  starts_with(lower, sRunnerAppLower)

\* The name test of is_candidate_runner_zip.
NameMatches(file_name) ==
  LET lower == to_ascii_lowercase(file_name) IN
  starts_with(lower, sRunnerAppLower) /\ ends_with(lower, sDotZip)

\* is_candidate_runner_zip(path), path being <watch_dir>/<name> and f the
\* state of that file.
is_candidate_runner_zip(name, f) ==
  IF f.kind # "file" THEN FALSE ELSE NameMatches(name)

\* The sleeps and the time limit of wait_until_file_ready, in milliseconds.
MissingSleepMs == 250
PollSleepMs == 400
MaxWaitSecs == 15
MaxWaitMs == MaxWaitSecs * 1000

None == -1

\* The locals of wait_until_file_ready when it is entered.
WaitStart ==
  [ elapsed |-> 0, last_len |-> None, result |-> "pending",
    \* history, for the properties: size reads made (counted up to 2), the last two sizes read,
    \* whether the file could be opened at the last read, whether every two
    \* consecutive reads differed, whether the file was there, openable and of
    \* one size at every read
    reads |-> 0, hPrev |-> None, hLast |-> None, hOpen |-> FALSE,
    allDiffer |-> TRUE, steady |-> TRUE ]

NoWait == [WaitStart EXCEPT !.result = "none"]

\* A turn that takes any second size read for a stable one.
wait_iteration_any_size(w, f) ==
  IF ~(w.elapsed < MaxWaitMs)
  THEN [elapsed |-> w.elapsed, last_len |-> w.last_len, result |-> "timeout"]
  ELSE IF f.kind = "absent"
  THEN [elapsed |-> w.elapsed + MissingSleepMs, last_len |-> w.last_len,
        result |-> "pending"]
  ELSE IF w.last_len # None /\ f.openable
  THEN [elapsed |-> w.elapsed, last_len |-> w.last_len, result |-> "ready"]
  ELSE [elapsed |-> w.elapsed + PollSleepMs, last_len |-> f.size,
        result |-> "pending"]

\* A turn that forgets to keep the size it read.
wait_iteration_no_store(w, f) ==
  IF ~(w.elapsed < MaxWaitMs)
  THEN [elapsed |-> w.elapsed, last_len |-> w.last_len, result |-> "timeout"]
  ELSE IF f.kind = "absent"
  THEN [elapsed |-> w.elapsed + MissingSleepMs, last_len |-> w.last_len,
        result |-> "pending"]
  ELSE IF w.last_len # None /\ w.last_len = f.size /\ f.openable
  THEN [elapsed |-> w.elapsed, last_len |-> w.last_len, result |-> "ready"]
  ELSE [elapsed |-> w.elapsed + PollSleepMs, last_len |-> w.last_len,
        result |-> "pending"]

\* One turn of the loop of wait_until_file_ready on a file in state f: the
\* new elapsed time, last_len and result.
wait_iteration(w, f) ==
  IF ~(w.elapsed < MaxWaitMs)
  THEN [elapsed |-> w.elapsed, last_len |-> w.last_len, result |-> "timeout"]
  ELSE IF f.kind = "absent"
  THEN [elapsed |-> w.elapsed + MissingSleepMs, last_len |-> w.last_len,
        result |-> "pending"]
  ELSE IF w.last_len # None /\ w.last_len = f.size /\ f.openable
  THEN [elapsed |-> w.elapsed, last_len |-> w.last_len, result |-> "ready"]
  ELSE [elapsed |-> w.elapsed + PollSleepMs, last_len |-> f.size,
        result |-> "pending"]

\* The checks without the one of the display name.
StartCheckNoAppName(c) ==
  IF ~c.watchDirOk THEN "Watch directory is invalid"
  ELSE IF ~c.outDirOk THEN "Output directory is invalid"
  ELSE IF trim(c.output_ipa_name) = << >>
          \/ ~ends_with(to_lowercase(c.output_ipa_name), sDotIpa)
  THEN "Output IPA name must end with .ipa"
  ELSE IF contains(c.output_ipa_name, "/") \/ contains(c.output_ipa_name, "\\")
  THEN "Output IPA name must be a file name, not a path"
  ELSE "ok"

\* The checks of AutoCheckRunner::start: the error, or "ok".
StartCheck(c) ==
  IF ~c.watchDirOk THEN "Watch directory is invalid"
  ELSE IF ~c.outDirOk THEN "Output directory is invalid"
  ELSE IF trim(c.app_name) = << >> THEN "App name cannot be empty"
  ELSE IF trim(c.output_ipa_name) = << >>
          \/ ~ends_with(to_lowercase(c.output_ipa_name), sDotIpa)
  THEN "Output IPA name must end with .ipa"
  ELSE IF contains(c.output_ipa_name, "/") \/ contains(c.output_ipa_name, "\\")
  THEN "Output IPA name must be a file name, not a path"
  ELSE "ok"

sAppName == << "A", "p", "p" >>

WatchCfg(n) ==
  [watchDirOk |-> TRUE, outDirOk |-> TRUE, app_name |-> sAppName,
   output_ipa_name |-> n]

WatchConfigs ==
  { WatchCfg(nGood), WatchCfg(nZip), WatchCfg(nPadded), WatchCfg(nSlash),
    WatchCfg(nBackslash), WatchCfg(nBlank),
    [WatchCfg(nGood) EXCEPT !.app_name = nBlank],
    [WatchCfg(nGood) EXCEPT !.watchDirOk = FALSE],
    [WatchCfg(nGood) EXCEPT !.outDirOk = FALSE] }

\* What a candidate zip of the watched directory unpacks to.
WatchTree(name) == IF name = fRunnerZip THEN TreeRunner ELSE TreeNoApp

Event(ps) == [ok |-> TRUE, paths |-> ps]

EventError == [ok |-> FALSE, paths |-> << >>]

\* What the notifier reports.
EventChoices ==
  { Event(<<fRunnerZip>>), Event(<<fNotesZip, fUpperZip>>), EventError }

\* Events reported in one behaviour.
MaxEvents == 2

FileState(k, sz, o) == [kind |-> k, size |-> sz, openable |-> o]

FileStates ==
  {FileState("absent", 0, FALSE)}
    \cup {FileState(k, sz, o) : k \in {"file", "dir"}, sz \in Sizes, o \in BOOLEAN}

Msg(k, p) == [kind |-> k, path |-> p]

(***************************************************************************)
(* The watcher: state and steps                                            *)
(***************************************************************************)

\* The watcher's state before start is called.
WatchIdle(fs) ==
  /\ runner = "none"
  /\ wcfg = WatchCfg(nGood)
  /\ tpc = "none"
  /\ stopFlag = FALSE
  /\ stopAt = None
  /\ rxAlive = FALSE
  /\ chan = << >>
  /\ sent = << >>
  /\ events = << >>
  /\ nEvents = 0
  /\ paths = << >>
  /\ fileEnv = fs
  /\ wait = NoWait

\* The watched directory when nothing is ever written to it.
NoFiles == [n \in WatchNames |-> {FileState("absent", 0, FALSE)}]

\* The watched directories of the watcher's behaviours: every file complete
\* and readable; Runner.app-debug.zip locked by its writer, the other names
\* directories; Runner.app-debug.zip still growing; Runner.app-debug.zip
\* removed at some moment.
WatchEnvs ==
  { [n \in WatchNames |-> {FileState("file", 1, TRUE)}],
    [n \in WatchNames |-> IF n = fRunnerZip THEN {FileState("file", 1, FALSE)}
                          ELSE {FileState("dir", 0, TRUE)}],
    [n \in WatchNames |-> IF n = fRunnerZip
                          THEN {FileState("file", 1, TRUE), FileState("file", 2, TRUE)}
                          ELSE {FileState("file", 1, TRUE)}],
    [n \in WatchNames |-> IF n = fRunnerZip
                          THEN {FileState("file", 1, TRUE), FileState("absent", 0, FALSE)}
                          ELSE {FileState("file", 1, TRUE)}] }

\* tx.send(..) with its result dropped (let _ =): the message is queued when
\* the receiver exists and lost otherwise.
Send(kind, path) ==
  /\ sent' = Append(sent, [kind |-> kind, path |-> path, ok |-> rxAlive])
  /\ chan' = IF rxAlive THEN Append(chan, Msg(kind, path)) ELSE chan

\* AutoCheckRunner::start(cfg).
Start ==
  /\ runner = "none"
  /\ \E c \in WatchConfigs :
       /\ wcfg' = c
       /\ IF StartCheck(c) # "ok"
          THEN /\ runner' = "error"
               /\ UNCHANGED <<tpc, rxAlive>>
          ELSE /\ runner' = "handle"
               /\ tpc' = "spawned"
               /\ rxAlive' = TRUE
  /\ UNCHANGED <<stopFlag, stopAt, chan, sent, events, nEvents, paths, fileEnv, wait>>
  /\ UNCHANGED <<gvars, zvars, pvars, uvars>>

\* The thread's first statement: the "AutoCheck started" message.
TSendStarted ==
  /\ tpc = "spawned"
  /\ Send("Started", << >>)
  /\ tpc' = "init"
  /\ UNCHANGED <<runner, wcfg, stopFlag, stopAt, rxAlive, events, nEvents, paths, fileEnv,
                 wait>>
  /\ UNCHANGED <<gvars, zvars, pvars, uvars>>

\* RecommendedWatcher::new: on an error the thread reports it and returns.
TWatcherInit ==
  /\ tpc = "init"
  /\ \E ok \in BOOLEAN :
       IF ok THEN tpc' = "watch" /\ UNCHANGED <<sent, chan>>
       ELSE tpc' = "done" /\ Send("InitError", << >>)
  /\ UNCHANGED <<runner, wcfg, stopFlag, stopAt, rxAlive, events, nEvents, paths, fileEnv,
                 wait>>
  /\ UNCHANGED <<gvars, zvars, pvars, uvars>>

\* watcher.watch(watch_dir): on an error the thread reports it and returns.
TWatch ==
  /\ tpc = "watch"
  /\ \E ok \in BOOLEAN :
       IF ok THEN tpc' = "loop" /\ UNCHANGED <<sent, chan>>
       ELSE tpc' = "done" /\ Send("StartError", << >>)
  /\ UNCHANGED <<runner, wcfg, stopFlag, stopAt, rxAlive, events, nEvents, paths, fileEnv,
                 wait>>
  /\ UNCHANGED <<gvars, zvars, pvars, uvars>>

\* A loop that never looks at the flag.
TLoopCheckNoStop ==
  /\ tpc = "loop"
  /\ tpc' = "recv"
  /\ UNCHANGED <<runner, wcfg, stopFlag, stopAt, rxAlive, chan, sent, events, nEvents,
                 paths, fileEnv, wait>>
  /\ UNCHANGED <<gvars, zvars, pvars, uvars>>

\* while !stop_flag.load()
TLoopCheck ==
  /\ tpc = "loop"
  /\ tpc' = IF stopFlag THEN "final" ELSE "recv"
  /\ UNCHANGED <<runner, wcfg, stopFlag, stopAt, rxAlive, chan, sent, events, nEvents,
                 paths, fileEnv, wait>>
  /\ UNCHANGED <<gvars, zvars, pvars, uvars>>

\* event_rx.recv_timeout(250 ms): an event, an error of the notifier, or the
\* timeout.  The sender lives in `watcher`, which is dropped when the thread
\* returns, so the channel is never disconnected inside the loop.
TRecv ==
  /\ tpc = "recv"
  /\ IF events = << >>
     THEN tpc' = "loop" /\ UNCHANGED <<events, paths, sent, chan>>
     ELSE /\ events' = Tail(events)
          /\ IF Head(events).ok
             THEN /\ paths' = Head(events).paths
                  /\ tpc' = "for"
                  /\ UNCHANGED <<sent, chan>>
             ELSE /\ Send("EventError", << >>)
                  /\ tpc' = "loop"
                  /\ UNCHANGED paths
  /\ UNCHANGED <<runner, wcfg, stopFlag, stopAt, rxAlive, nEvents, fileEnv, wait>>
  /\ UNCHANGED <<gvars, zvars, pvars, uvars>>

\* A for loop that does not look at the flag between two paths.
TForNextNoStop ==
  /\ tpc = "for"
  /\ IF paths = << >> THEN tpc' = "loop" /\ UNCHANGED paths
     ELSE tpc' = "filter" /\ UNCHANGED paths
  /\ UNCHANGED <<runner, wcfg, stopFlag, stopAt, rxAlive, chan, sent, events, nEvents,
                 fileEnv, wait>>
  /\ UNCHANGED <<gvars, zvars, pvars, uvars>>

\* for path in ev.paths { if stop_flag.load() { break; } ..
TForNext ==
  /\ tpc = "for"
  /\ IF paths = << >> THEN tpc' = "loop" /\ UNCHANGED paths
     ELSE IF stopFlag THEN tpc' = "loop" /\ paths' = << >>
     ELSE tpc' = "filter" /\ UNCHANGED paths
  /\ UNCHANGED <<runner, wcfg, stopFlag, stopAt, rxAlive, chan, sent, events, nEvents,
                 fileEnv, wait>>
  /\ UNCHANGED <<gvars, zvars, pvars, uvars>>

\* A loop that announces every path before it looks whether it is a candidate.
TFilterAnnounceFirst ==
  /\ tpc = "filter"
  /\ Send("Detected", Head(paths))
  /\ \E f \in fileEnv[Head(paths)] :
       IF ~is_candidate_runner_zip(Head(paths), f)
       THEN /\ tpc' = "for"
            /\ paths' = Tail(paths)
            /\ UNCHANGED wait
       ELSE /\ tpc' = "wait"
            /\ wait' = WaitStart
            /\ UNCHANGED paths
  /\ UNCHANGED <<runner, wcfg, stopFlag, stopAt, rxAlive, events, nEvents, fileEnv>>
  /\ UNCHANGED <<gvars, zvars, pvars, uvars>>

\* .. if !is_candidate_runner_zip(&path) { continue; } send("Detected candidate")
\* and the call of wait_until_file_ready.
TFilter ==
  /\ tpc = "filter"
  /\ \E f \in fileEnv[Head(paths)] :
       IF ~is_candidate_runner_zip(Head(paths), f)
       THEN /\ tpc' = "for"
            /\ paths' = Tail(paths)
            /\ UNCHANGED <<sent, chan, wait>>
       ELSE /\ Send("Detected", Head(paths))
            /\ tpc' = "wait"
            /\ wait' = WaitStart
            /\ UNCHANGED paths
  /\ UNCHANGED <<runner, wcfg, stopFlag, stopAt, rxAlive, events, nEvents, fileEnv>>
  /\ UNCHANGED <<gvars, zvars, pvars, uvars>>

\* One turn of the loop of wait_until_file_ready (or its return by timeout).
TWaitIter ==
  /\ tpc = "wait"
  /\ wait.result = "pending"
  /\ \E f \in fileEnv[Head(paths)] :
     LET w == wait_iteration(wait, f)
         timedOut == ~(wait.elapsed < MaxWaitMs)
         read == ~timedOut /\ f.kind # "absent"
     IN  wait' =
           [ elapsed |-> w.elapsed, last_len |-> w.last_len, result |-> w.result,
             reads |-> IF read /\ wait.reads < 2 THEN wait.reads + 1 ELSE wait.reads,
             hPrev |-> IF read THEN wait.hLast ELSE wait.hPrev,
             hLast |-> IF read THEN f.size ELSE wait.hLast,
             hOpen |-> IF read THEN f.openable ELSE wait.hOpen,
             allDiffer |-> IF read /\ wait.hLast # None
                           THEN wait.allDiffer /\ wait.hLast # f.size
                           ELSE wait.allDiffer,
             steady |-> IF timedOut THEN wait.steady
                        ELSE /\ wait.steady
                             /\ f.kind # "absent"
                             /\ f.openable
                             /\ (wait.hLast = None \/ wait.hLast = f.size) ]
  /\ UNCHANGED <<runner, wcfg, tpc, stopFlag, stopAt, rxAlive, chan, sent, events, nEvents,
                 paths, fileEnv>>
  /\ UNCHANGED <<gvars, zvars, pvars, uvars>>

\* A timeout that leaves the for loop (break) instead of going on (continue).
TWaitDoneBreak ==
  /\ tpc = "wait"
  /\ wait.result \in {"ready", "timeout"}
  /\ IF wait.result = "timeout"
     THEN /\ Send("Skipped", Head(paths))
          /\ tpc' = "loop"
          /\ paths' = << >>
          /\ UNCHANGED gvars
     ELSE /\ tpc' = "gen"
          /\ \E f \in fileEnv[Head(paths)] :
               Enter([inputExists |-> f.kind # "absent",
                      zipOk       |-> TRUE,
                      tree        |-> WatchTree(Head(paths)),
                      outDirOk    |-> TRUE,
                      name        |-> wcfg.output_ipa_name])
          /\ UNCHANGED <<calls, nFaults, sent, chan, paths>>
  /\ wait' = NoWait
  /\ UNCHANGED <<runner, wcfg, stopFlag, stopAt, rxAlive, events, nEvents, fileEnv>>
  /\ UNCHANGED <<zvars, pvars, uvars>>

\* A timeout that skips the candidate without a message.
TWaitDoneSilent ==
  /\ tpc = "wait"
  /\ wait.result \in {"ready", "timeout"}
  /\ IF wait.result = "timeout"
     THEN /\ tpc' = "for"
          /\ paths' = Tail(paths)
          /\ UNCHANGED <<sent, chan>>
          /\ UNCHANGED gvars
     ELSE /\ tpc' = "gen"
          /\ \E f \in fileEnv[Head(paths)] :
               Enter([inputExists |-> f.kind # "absent",
                      zipOk       |-> TRUE,
                      tree        |-> WatchTree(Head(paths)),
                      outDirOk    |-> TRUE,
                      name        |-> wcfg.output_ipa_name])
          /\ UNCHANGED <<calls, nFaults, sent, chan, paths>>
  /\ wait' = NoWait
  /\ UNCHANGED <<runner, wcfg, stopFlag, stopAt, rxAlive, events, nEvents, fileEnv>>
  /\ UNCHANGED <<zvars, pvars, uvars>>

\* After wait_until_file_ready: "Skipped (not ready)" and continue, or the
\* AppConfig is built and generate_ipa is called.
TWaitDone ==
  /\ tpc = "wait"
  /\ wait.result \in {"ready", "timeout"}
  /\ IF wait.result = "timeout"
     THEN /\ Send("Skipped", Head(paths))
          /\ tpc' = "for"
          /\ paths' = Tail(paths)
          /\ UNCHANGED gvars
     ELSE /\ tpc' = "gen"
          /\ \E f \in fileEnv[Head(paths)] :
               Enter([inputExists |-> f.kind # "absent",
                      zipOk       |-> TRUE,
                      tree        |-> WatchTree(Head(paths)),
                      outDirOk    |-> TRUE,
                      name        |-> wcfg.output_ipa_name])
          /\ UNCHANGED <<calls, nFaults, sent, chan, paths>>
  /\ wait' = NoWait
  /\ UNCHANGED <<runner, wcfg, stopFlag, stopAt, rxAlive, events, nEvents, fileEnv>>
  /\ UNCHANGED <<zvars, pvars, uvars>>

\* A loop that gives up after a failed packaging call.
TGenDoneLeaveOnError ==
  /\ tpc = "gen"
  /\ gpc = "returned"
  /\ Send(IF gresult.ok THEN "Generated" ELSE "GenerationError", Head(paths))
  /\ tpc' = IF gresult.ok THEN "for" ELSE "final"
  /\ paths' = Tail(paths)
  /\ gpc' = "idle"
  /\ cfg' = Req(TreeRunner, nGood)
  /\ extractDir' = NoDir
  /\ buildDir' = NoDir
  /\ bundle' = << >>
  /\ outBefore' = {}
  /\ prevCall' = NoCall
  /\ gresult' = NoResult
  /\ fsWork' = {}
  /\ listing' = << >>
  /\ UNCHANGED <<outFiles, calls, nFaults>>
  /\ UNCHANGED <<runner, wcfg, stopFlag, stopAt, rxAlive, events, nEvents, fileEnv, wait>>
  /\ UNCHANGED <<zvars, pvars, uvars>>

\* A loop that abandons the call in flight when stop is requested.
TGenDoneAbandonOnStop ==
  /\ tpc = "gen"
  /\ gpc = "returned" \/ stopFlag
  /\ IF gpc = "returned"
     THEN Send(IF gresult.ok THEN "Generated" ELSE "GenerationError", Head(paths))
     ELSE UNCHANGED <<sent, chan>>
  /\ tpc' = "for"
  /\ paths' = Tail(paths)
  /\ gpc' = "idle"
  /\ cfg' = Req(TreeRunner, nGood)
  /\ extractDir' = NoDir
  /\ buildDir' = NoDir
  /\ bundle' = << >>
  /\ outBefore' = {}
  /\ prevCall' = NoCall
  /\ gresult' = NoResult
  /\ fsWork' = {}
  /\ listing' = << >>
  /\ UNCHANGED <<outFiles, calls, nFaults>>
  /\ UNCHANGED <<runner, wcfg, stopFlag, stopAt, rxAlive, events, nEvents, fileEnv, wait>>
  /\ UNCHANGED <<zvars, pvars, uvars>>

\* generate_ipa has returned: "Generated" or "Generation error", next path.
TGenDone ==
  /\ tpc = "gen"
  /\ gpc = "returned"
  /\ Send(IF gresult.ok THEN "Generated" ELSE "GenerationError", Head(paths))
  /\ tpc' = "for"
  /\ paths' = Tail(paths)
  /\ gpc' = "idle"
  /\ cfg' = Req(TreeRunner, nGood)
  /\ extractDir' = NoDir
  /\ buildDir' = NoDir
  /\ bundle' = << >>
  /\ outBefore' = {}
  /\ prevCall' = NoCall
  /\ gresult' = NoResult
  /\ fsWork' = {}
  /\ listing' = << >>
  /\ UNCHANGED <<outFiles, calls, nFaults>>
  /\ UNCHANGED <<runner, wcfg, stopFlag, stopAt, rxAlive, events, nEvents, fileEnv, wait>>
  /\ UNCHANGED <<zvars, pvars, uvars>>

\* A loop that sends "AutoCheck stopped." and goes round again.
TFinalInsideLoop ==
  /\ tpc = "final"
  /\ Send("Stopped", << >>)
  /\ tpc' = IF sent # << >> /\ sent[Len(sent)].kind = "Stopped" THEN "done" ELSE "loop"
  /\ UNCHANGED <<runner, wcfg, stopFlag, stopAt, rxAlive, events, nEvents, paths, fileEnv,
                 wait>>
  /\ UNCHANGED <<gvars, zvars, pvars, uvars>>

\* After the loop: the "AutoCheck stopped." message, and the thread ends.
TFinal ==
  /\ tpc = "final"
  /\ Send("Stopped", << >>)
  /\ tpc' = "done"
  /\ UNCHANGED <<runner, wcfg, stopFlag, stopAt, rxAlive, events, nEvents, paths, fileEnv,
                 wait>>
  /\ UNCHANGED <<gvars, zvars, pvars, uvars>>

ThreadStep ==
  \/ TSendStarted
  \/ TWatcherInit
  \/ TWatch
  \/ TLoopCheck
  \/ TRecv
  \/ TForNext
  \/ TFilter
  \/ TWaitIter
  \/ TWaitDone
  \/ TGenDone
  \/ TFinal
  \/ (tpc = "gen" /\ GenStep)

(***************************************************************************)
(* The caller and the environment                                          *)
(***************************************************************************)

\* stop(): the store of the flag ..
StopStore ==
  /\ runner = "handle"
  /\ stopFlag' = TRUE
  /\ stopAt' = Len(sent)
  /\ runner' = "joining"
  /\ UNCHANGED <<wcfg, tpc, rxAlive, chan, sent, events, nEvents, paths, fileEnv,
                 wait>>
  /\ UNCHANGED <<gvars, zvars, pvars, uvars>>

\* A stop that does not wait for the thread.
StopJoinDetached ==
  /\ runner = "joining"
  /\ runner' = "stopped"
  /\ UNCHANGED <<wcfg, tpc, stopFlag, stopAt, rxAlive, chan, sent, events, nEvents, paths,
                 fileEnv, wait>>
  /\ UNCHANGED <<gvars, zvars, pvars, uvars>>

\* .. and handle.join(), which returns when the thread has ended.
StopJoin ==
  /\ runner = "joining"
  /\ tpc = "done"
  /\ runner' = "stopped"
  /\ UNCHANGED <<wcfg, tpc, stopFlag, stopAt, rxAlive, chan, sent, events, nEvents, paths,
                 fileEnv, wait>>
  /\ UNCHANGED <<gvars, zvars, pvars, uvars>>

\* stop() called again: the store of the flag ..
StopAgainStore ==
  /\ runner = "stopped"
  /\ stopFlag' = TRUE
  /\ runner' = "stopping"
  /\ UNCHANGED <<wcfg, tpc, stopAt, rxAlive, chan, sent, events, nEvents, paths, fileEnv,
                 wait>>
  /\ UNCHANGED <<gvars, zvars, pvars, uvars>>

\* .. and join_handle.take() gives None, the first call having taken the
\* handle: stop() returns.
StopAgainReturn ==
  /\ runner = "stopping"
  /\ runner' = "stopped"
  /\ UNCHANGED <<wcfg, tpc, stopFlag, stopAt, rxAlive, chan, sent, events, nEvents, paths,
                 fileEnv, wait>>
  /\ UNCHANGED <<gvars, zvars, pvars, uvars>>

\* try_recv() when a message is queued.
TryRecv ==
  /\ runner \in {"handle", "stopped"}
  /\ chan # << >>
  /\ chan' = Tail(chan)
  /\ UNCHANGED <<runner, wcfg, tpc, stopFlag, stopAt, rxAlive, sent, events, nEvents, paths,
                 fileEnv, wait>>
  /\ UNCHANGED <<gvars, zvars, pvars, uvars>>

\* The runner is dropped: the receiver goes, the thread is detached (the
\* struct has no Drop of its own).
DropRunner ==
  /\ runner \in {"handle", "stopped"}
  /\ runner' = "dropped"
  /\ rxAlive' = FALSE
  /\ chan' = << >>
  /\ UNCHANGED <<wcfg, tpc, stopFlag, stopAt, sent, events, nEvents, paths, fileEnv,
                 wait>>
  /\ UNCHANGED <<gvars, zvars, pvars, uvars>>

\* The notifier reports an event (the watch is registered, the thread runs).
EnvEvent ==
  /\ tpc \notin {"none", "spawned", "init", "watch", "done"}
  /\ nEvents < MaxEvents
  /\ \E e \in EventChoices : events' = Append(events, e)
  /\ nEvents' = nEvents + 1
  /\ UNCHANGED <<runner, wcfg, tpc, stopFlag, stopAt, rxAlive, chan, sent, paths, fileEnv,
                 wait>>
  /\ UNCHANGED <<gvars, zvars, pvars, uvars>>

\* What the notifier reports when two candidates are written together: one
\* event naming both, or an error.
BurstChoices == { Event(<<fUpperZip, fRunnerZip>>), EventError }

\* The notifier reports such an event.
EnvBurst ==
  /\ tpc \notin {"none", "spawned", "init", "watch", "done"}
  /\ nEvents < MaxEvents
  /\ \E e \in BurstChoices : events' = Append(events, e)
  /\ nEvents' = nEvents + 1
  /\ UNCHANGED <<runner, wcfg, tpc, stopFlag, stopAt, rxAlive, chan, sent, paths, fileEnv,
                 wait>>
  /\ UNCHANGED <<gvars, zvars, pvars, uvars>>

\* Output names that look like a candidate's name.
nRunnerIpa      == << "r", "u", "n", "n", "e", "r", ".", "a", "p", "p", ".", "i", "p", "a" >>
nRunnerZipIpa   ==
  << " ", "R", "u", "n", "n", "e", "r", ".", "a", "p", "p", ".", "z", "i", "p", ".",
     "I", "P", "A" >>
nRunnerZip      == << "r", "u", "n", "n", "e", "r", ".", "a", "p", "p", ".", "z", "i", "p" >>

\* Configurations whose output directory is the watched directory.
SelfConfigs ==
  { WatchCfg(nGood), WatchCfg(nRunnerIpa), WatchCfg(nRunnerZipIpa), WatchCfg(nRunnerZip) }

\* The file a packaging call of the watcher writes: output_dir.join(name.trim()).
OwnOutput == trim(wcfg.output_ipa_name)

\* The notifier reports the file that generate_ipa has created or written in
\* the watched directory.
EnvOwnOutput ==
  /\ tpc \notin {"none", "spawned", "init", "watch", "done"}
  /\ nEvents < MaxEvents
  /\ OutFile(outFiles, OwnOutput) # {}
  /\ events' = Append(events, Event(<<OwnOutput>>))
  /\ nEvents' = nEvents + 1
  /\ UNCHANGED <<runner, wcfg, tpc, stopFlag, stopAt, rxAlive, chan, sent, paths, fileEnv,
                 wait>>
  /\ UNCHANGED <<gvars, zvars, pvars, uvars>>

(***************************************************************************)
(* The archive loop of generate_ipa, one entry at a time                   *)
(***************************************************************************)

\* The longest file content the archive loop is given.
MaxBytes == 4

\* The byte values file contents are made of: those of the magic numbers.
FileByteValues == {254, 237, 250, 206, 207, 202, 186, 190}

\* The contents of files: byte sequences of up to n bytes.
ByteSeqs(n) == UNION { [1..k -> FileByteValues] : k \in 0..n }

\* u32::from_be_bytes of the first four bytes, the value kept as its two
\* 16-bit halves <<high, low>>.
from_be_bytes(b) == << b[1] * 256 + b[2], b[3] * 256 + b[4] >>

\* The values is_macho matches: 0xFEEDFACE, 0xFEEDFACF, 0xCAFEBABE,
\* 0xBEBAFECA, 0xCEFAEDFE, 0xCFFAEDFE.
MachOMagics ==
  { <<65261, 64206>>, <<65261, 64207>>, <<51966, 47806>>,
    <<48826, 65226>>, <<52986, 60926>>, <<53242, 60926>> }

\* An is_macho that knows the big-endian magic numbers only.
is_macho_big_endian_only(bytes) ==
  IF Len(bytes) < 4 THEN FALSE
  ELSE from_be_bytes(bytes) \in { <<65261, 64206>>, <<65261, 64207>>, <<51966, 47806>> }

is_macho(bytes) ==
  IF Len(bytes) < 4 THEN FALSE ELSE from_be_bytes(bytes) \in MachOMagics

\* 0o755 and 0o644.
Perm0o755 == 493

Perm0o644 == 420

sDylib      == << "d", "y", "l", "i", "b" >>
sADylib     == << "a", ".", "d", "y", "l", "i", "b" >>
sAUpperDylib == << "a", ".", "D", "Y", "L", "I", "B" >>
sDotDylib   == << ".", "d", "y", "l", "i", "b" >>
sFrameworks == << "F", "r", "a", "m", "e", "w", "o", "r", "k", "s" >>

unix_permissions_for_payload_file(file_path, file_bytes) ==
  IF is_macho(file_bytes) THEN Perm0o755
  ELSE IF Extension(file_path[Len(file_path)]) = sDylib THEN Perm0o755
  ELSE Perm0o644

dir_options == [method |-> "Stored", mode |-> Perm0o755]

file_options_default == [method |-> "Deflated", mode |-> Perm0o644]

\* FileOptions::unix_permissions.
unix_permissions(options, perm) == [options EXCEPT !.mode = perm]

\* The names of the files of the bundle the loop is given.
ZipFileNames == {sRunner, sInfoPlist, sADylib, sAUpperDylib, sDotDylib, sDylib}

\* What the walk of Payload can yield, each path relative to the build
\* scratch directory: Payload, the bundle, a directory of the bundle, and the
\* bundle's files with every content.
ZipNodes ==
  { [path |-> p, dir |-> TRUE, bytes |-> << >>] :
      p \in { <<sPayload>>, <<sPayload, sRunnerApp>>,
              <<sPayload, sRunnerApp, sFrameworks>> } }
  \cup
  { [path |-> <<sPayload, sRunnerApp, f>>, dir |-> FALSE, bytes |-> b] :
      f \in ZipFileNames, b \in ByteSeqs(MaxBytes) }

\* Before the walk has yielded, and when nothing was written.
NoNode == [path |-> << >>]

NoEntry == [name |-> << >>]

\* Outside the archive loop.
ZipIdle == zpc = "idle" /\ znode = NoNode /\ zentry = NoEntry

\* The walk yields its next entry.
ZipWalkNext ==
  /\ zpc = "next"
  /\ \E n \in ZipNodes : znode' = n
  /\ zentry' = NoEntry
  /\ zpc' = "body"
  /\ UNCHANGED <<gvars, wvars, pvars, uvars>>

\* The file branch: the file is read, its permission computed, and the entry
\* started and written; a failure of any of these returns from generate_ipa.
ZipAddFile ==
  /\ zpc = "body"
  /\ ~znode.dir
  /\ LET zip_entry_name == zip_name_from_relative_path(znode.path, FALSE)
         perm == unix_permissions_for_payload_file(znode.path, znode.bytes)
         file_options == unix_permissions(file_options_default, perm)
     IN  IF zip_entry_name = << >>
         THEN zpc' = "end" /\ zentry' = NoEntry
         ELSE \E fail \in BOOLEAN :
                IF fail
                THEN zpc' = "returned" /\ zentry' = NoEntry
                ELSE /\ zpc' = "end"
                     /\ zentry' = [name   |-> zip_entry_name,
                                   dir    |-> FALSE,
                                   method |-> file_options.method,
                                   mode   |-> file_options.mode]
  /\ UNCHANGED znode
  /\ UNCHANGED <<gvars, wvars, pvars, uvars>>

\* The directory branch: add_directory, which can fail as well.
ZipAddDirectory ==
  /\ zpc = "body"
  /\ znode.dir
  /\ LET zip_entry_name == zip_name_from_relative_path(znode.path, TRUE)
     IN  IF zip_entry_name = << >>
         THEN zpc' = "end" /\ zentry' = NoEntry
         ELSE \E fail \in BOOLEAN :
                IF fail
                THEN zpc' = "returned" /\ zentry' = NoEntry
                ELSE /\ zpc' = "end"
                     /\ zentry' = [name   |-> zip_entry_name,
                                   dir    |-> TRUE,
                                   method |-> dir_options.method,
                                   mode   |-> dir_options.mode]
  /\ UNCHANGED znode
  /\ UNCHANGED <<gvars, wvars, pvars, uvars>>

\* The end of an iteration: the loop goes back for the walk's next entry.
ZipLoopBack ==
  /\ zpc = "end"
  /\ zpc' = "next"
  /\ znode' = NoNode
  /\ zentry' = NoEntry
  /\ UNCHANGED <<gvars, wvars, pvars, uvars>>

(***************************************************************************)
(* Two calls of generate_ipa running at once                               *)
(***************************************************************************)

\* The two calls.
Invocations == {1, 2}

\* The names tempdir() can give a directory.
TmpNames == {1, 2, 3, 4}

\* The requests of the two calls, each with one of three input archives: the
\* first call writes a.ipa; the second is given another name, which is b.ipa
\* or, padded with blanks, a name that is a.ipa once trimmed.
PairTrees == {TreeRunner, TreeNested, TreeNoApp}

FirstRequests == { Req(t, nGood) : t \in PairTrees }

SecondRequests == { Req(t, n) : t \in PairTrees, n \in {nOther, nPadded} }

PairRequests == FirstRequests \cup SecondRequests

PairNames == { trim(r.name) : r \in PairRequests }

NoFile == [state |-> "none", entries |-> << >>, complete |-> FALSE]

\* What a read finds where a write left a gap.
Hole == [name |-> << >>, dir |-> FALSE]

\* The locals of a call that has not started.
NoLocals(request) ==
  [ pc |-> "mkExtract", req |-> request, extract |-> 0, build |-> 0,
    bundle |-> << >>, entries |-> << >>, off |-> 0, result |-> NoResult ]

\* Outside the two calls.
PairIdle ==
  /\ inv = [p \in Invocations |-> NoLocals(Req(TreeRunner, nGood))]
  /\ tmpDirs = [d \in TmpNames |-> NoDir]
  /\ outDir = [n \in PairNames |-> NoFile]

\* A tempdir() that takes any name, one in use too.
AnyTmpNames(dirs) == TmpNames

\* tempdir(): the directory is created under a name no directory has.
FreshTmpNames(dirs) == {d \in TmpNames : dirs[d].state # "exists"}

\* The return of call p: its temporary directories are removed.
PairReturn(p, res) ==
  /\ inv' = [inv EXCEPT ![p].pc = "returned", ![p].result = res]
  /\ tmpDirs' = [d \in TmpNames |->
                   IF d \in {inv[p].extract, inv[p].build}
                   THEN DropTempDir(tmpDirs[d]) ELSE tmpDirs[d]]

\* The checks of the request, which it passes, and tempdir() for the
\* extraction.
PairCreateExtractDir(p) ==
  /\ inv[p].pc = "mkExtract"
  /\ \E d \in FreshTmpNames(tmpDirs) :
       /\ tmpDirs' = [tmpDirs EXCEPT ![d] = [state |-> "exists", tree |-> {}]]
       /\ inv' = [inv EXCEPT ![p].pc = "extract", ![p].extract = d]
  /\ UNCHANGED outDir

\* The archive is extracted into the call's extraction directory.
PairExtract(p) ==
  /\ inv[p].pc = "extract"
  /\ tmpDirs' = [tmpDirs EXCEPT ![inv[p].extract].tree = @ \cup inv[p].req.tree]
  /\ inv' = [inv EXCEPT ![p].pc = "locate"]
  /\ UNCHANGED outDir

\* The bundle search in the call's extraction directory.
PairLocate(p) ==
  /\ inv[p].pc = "locate"
  /\ LET tree == tmpDirs[inv[p].extract].tree IN
     \E ord \in Orders(tree) :
        IF LocateBundle(tree, ord) = << >>
        THEN PairReturn(p, Err("UnexpectedZipStructure"))
        ELSE /\ inv' = [inv EXCEPT ![p].pc = "mkBuild",
                                   ![p].bundle = LocateBundle(tree, ord)]
             /\ UNCHANGED tmpDirs
  /\ UNCHANGED outDir

\* tempdir() for the build.
PairCreateBuildDir(p) ==
  /\ inv[p].pc = "mkBuild"
  /\ \E d \in FreshTmpNames(tmpDirs) :
       /\ tmpDirs' = [tmpDirs EXCEPT ![d] = [state |-> "exists", tree |-> {}]]
       /\ inv' = [inv EXCEPT ![p].pc = "copy", ![p].build = d]
  /\ UNCHANGED outDir

\* Payload is created in the build directory and the bundle copied into it.
PairCopy(p) ==
  /\ inv[p].pc = "copy"
  /\ tmpDirs' = [tmpDirs EXCEPT ![inv[p].build].tree =
                   @ \cup PayloadTree(tmpDirs[inv[p].extract].tree, inv[p].bundle)]
  /\ inv' = [inv EXCEPT ![p].pc = "name"]
  /\ UNCHANGED outDir

\* The check of the output name.
PairCheckName(p) ==
  /\ inv[p].pc = "name"
  /\ IF NameInvalid(trim(inv[p].req.name))
     THEN PairReturn(p, Err("InvalidIpaName"))
     ELSE inv' = [inv EXCEPT ![p].pc = "create"] /\ UNCHANGED tmpDirs
  /\ UNCHANGED outDir

\* File::create: the file is created, or emptied when it is there; the call
\* then writes through its own handle, from the start of the file.
PairCreateOutput(p) ==
  /\ inv[p].pc = "create"
  /\ outDir' = [outDir EXCEPT ![trim(inv[p].req.name)] =
                  [state |-> "exists", entries |-> << >>, complete |-> FALSE]]
  /\ \E ord \in Orders(tmpDirs[inv[p].build].tree) :
       inv' = [inv EXCEPT ![p].pc = "write", ![p].off = 0,
                 ![p].entries = EntriesOf(BuildWalk(tmpDirs[inv[p].build].tree, ord, {}))]
  /\ UNCHANGED tmpDirs

\* The entries of a file after entry e is written at position k of it.
WriteAt(entries, k, e) ==
  [i \in 1..(IF Len(entries) >= k THEN Len(entries) ELSE k) |->
     IF i = k THEN e ELSE IF i <= Len(entries) THEN entries[i] ELSE Hole]

\* One turn of the archive loop: the next entry is written where the call's
\* handle stands; after the last one, finish().
PairWrite(p) ==
  /\ inv[p].pc = "write"
  /\ LET n == trim(inv[p].req.name)
         k == inv[p].off + 1
     IN  IF k <= Len(inv[p].entries)
         THEN /\ outDir' = [outDir EXCEPT ![n].entries =
                              WriteAt(@, k, inv[p].entries[k])]
              /\ inv' = [inv EXCEPT ![p].off = k]
         ELSE /\ outDir' = [outDir EXCEPT ![n].complete = TRUE]
              /\ inv' = [inv EXCEPT ![p].pc = "validate"]
  /\ UNCHANGED tmpDirs

\* validate_generated_ipa on the file as it is now: a file that is not what
\* the call wrote may fail to be read as an archive.
PairValidate(p) ==
  /\ inv[p].pc = "validate"
  /\ LET f == outDir[trim(inv[p].req.name)] IN
     \E readable \in BOOLEAN :
        /\ (f.entries = inv[p].entries /\ f.complete) => readable
        /\ IF ~readable THEN PairReturn(p, Err("Zip"))
           ELSE IF ~HasPlistEntry(f.entries)
           THEN PairReturn(p, Err("InvalidIpaStructure"))
           ELSE PairReturn(p, Ok(trim(inv[p].req.name)))
  /\ UNCHANGED outDir

PairStep(p) ==
  \/ PairCreateExtractDir(p)
  \/ PairExtract(p)
  \/ PairLocate(p)
  \/ PairCreateBuildDir(p)
  \/ PairCopy(p)
  \/ PairCheckName(p)
  \/ PairCreateOutput(p)
  \/ PairWrite(p)
  \/ PairValidate(p)

(***************************************************************************)
(* The application list of the GUI                                         *)
(***************************************************************************)

\* The most applications added in one behaviour.
MaxApps == 2

\* The GUI when it starts with nothing stored and no dialog open.
GuiIdle ==
  /\ app_configs = << >>
  /\ app_ids = << >>
  /\ nAdded = 0
  /\ show_edit_dialog_for_idx = None
  /\ show_delete_confirm_for_idx = None
  /\ editTarget = None
  /\ deleteTarget = None

\* The GUI thread is free: generate_ipa is called from it and blocks it.
GuiFree == gpc \in {"idle", "returned"}

\* The test of the Add Application dialog on the output name typed in.
AddDialogRejects(input) ==
  trim(input) = << >> \/ ~ends_with(input, sDotIpa)

\* The test of the Edit dialog.
EditDialogRejects(input) ==
  LET ipa_name == trim(input) IN
  ipa_name = << >> \/ ~ends_with(ipa_name, sDotIpa)

\* Vec::remove(idx), indices counted from 1.
Remove(seq, idx) ==
  [i \in 1..(Len(seq) - 1) |-> IF i < idx THEN seq[i] ELSE seq[i + 1]]

\* "Add Application" is clicked: a name that passes is stored, trimmed, in a
\* new entry with a fresh id at the end of the list.
GuiAddApplication ==
  /\ GuiFree
  /\ nAdded < MaxApps
  /\ \E input \in OutputNames :
       IF AddDialogRejects(input) THEN UNCHANGED <<app_configs, app_ids, nAdded>>
       ELSE /\ app_configs' = Append(app_configs, trim(input))
            /\ app_ids' = Append(app_ids, nAdded + 1)
            /\ nAdded' = nAdded + 1
  /\ UNCHANGED <<show_edit_dialog_for_idx, show_delete_confirm_for_idx, editTarget,
                 deleteTarget>>
  /\ UNCHANGED <<gvars, wvars, zvars, pvars>>

\* The Edit button of row idx: the dialog is opened for that index.
GuiEdit ==
  /\ GuiFree
  /\ \E idx \in 1..Len(app_configs) :
       /\ show_edit_dialog_for_idx' = idx
       /\ editTarget' = app_ids[idx]
  /\ UNCHANGED <<app_configs, app_ids, nAdded, show_delete_confirm_for_idx, deleteTarget>>
  /\ UNCHANGED <<gvars, wvars, zvars, pvars>>

\* "Save Changes" is clicked in the Edit dialog, `input` in its output name
\* field: a name that passes is stored in app_configs.get_mut(idx), if there
\* is such an entry, and the dialog is closed.
GuiSaveChanges ==
  /\ GuiFree
  /\ show_edit_dialog_for_idx # None
  /\ \E input \in OutputNames :
       LET idx == show_edit_dialog_for_idx IN
       IF EditDialogRejects(input)
       THEN UNCHANGED <<app_configs, show_edit_dialog_for_idx>>
       ELSE /\ app_configs' = IF idx \in 1..Len(app_configs)
                              THEN [app_configs EXCEPT ![idx] = trim(input)]
                              ELSE app_configs
            /\ show_edit_dialog_for_idx' = None
  /\ UNCHANGED <<app_ids, nAdded, show_delete_confirm_for_idx, editTarget, deleteTarget>>
  /\ UNCHANGED <<gvars, wvars, zvars, pvars>>

\* Cancel in the Edit dialog.
GuiCancelEdit ==
  /\ GuiFree
  /\ show_edit_dialog_for_idx # None
  /\ show_edit_dialog_for_idx' = None
  /\ UNCHANGED <<app_configs, app_ids, nAdded, show_delete_confirm_for_idx, editTarget,
                 deleteTarget>>
  /\ UNCHANGED <<gvars, wvars, zvars, pvars>>

\* The Delete button of row idx: the confirmation is opened for that index.
GuiDelete ==
  /\ GuiFree
  /\ \E idx \in 1..Len(app_configs) :
       /\ show_delete_confirm_for_idx' = idx
       /\ deleteTarget' = app_ids[idx]
  /\ UNCHANGED <<app_configs, app_ids, nAdded, show_edit_dialog_for_idx, editTarget>>
  /\ UNCHANGED <<gvars, wvars, zvars, pvars>>

\* Delete in the confirmation: app_configs.remove(idx).  The confirmation of
\* an index the list does not have is closed when it is drawn.
GuiConfirmDelete ==
  /\ GuiFree
  /\ show_delete_confirm_for_idx # None
  /\ LET idx == show_delete_confirm_for_idx IN
     IF idx \in 1..Len(app_configs)
     THEN /\ app_configs' = Remove(app_configs, idx)
          /\ app_ids' = Remove(app_ids, idx)
     ELSE UNCHANGED <<app_configs, app_ids>>
  /\ show_delete_confirm_for_idx' = None
  /\ UNCHANGED <<nAdded, show_edit_dialog_for_idx, editTarget, deleteTarget>>
  /\ UNCHANGED <<gvars, wvars, zvars, pvars>>

\* Cancel in the confirmation.
GuiCancelDelete ==
  /\ GuiFree
  /\ show_delete_confirm_for_idx # None
  /\ show_delete_confirm_for_idx' = None
  /\ UNCHANGED <<app_configs, app_ids, nAdded, show_edit_dialog_for_idx, editTarget,
                 deleteTarget>>
  /\ UNCHANGED <<gvars, wvars, zvars, pvars>>

\* The Generate button of entry idx: generate_ipa is called with the entry.
GuiGenerate ==
  /\ GuiFree
  /\ calls < MaxCalls
  /\ \E idx \in 1..Len(app_configs) :
       Enter(Req(TreeRunner, app_configs[idx]))
  /\ calls' = calls + 1
  /\ UNCHANGED nFaults
  /\ UNCHANGED <<wvars, zvars, pvars, uvars>>

(***************************************************************************)
(* Specifications                                                          *)
(***************************************************************************)

\* Direct calls of generate_ipa.
Init == GenInit /\ WatchIdle(NoFiles) /\ ZipIdle /\ PairIdle /\ GuiIdle

Next == GenCall \/ GenStep

Spec == Init /\ [][Next]_vars

\* A started watcher, its caller and its environment.
InitWatch == GenInit /\ ZipIdle /\ PairIdle /\ GuiIdle /\ \E fs \in WatchEnvs : WatchIdle(fs)

NextWatch ==
  \/ Start
  \/ ThreadStep
  \/ StopStore
  \/ StopJoin
  \/ StopAgainStore
  \/ StopAgainReturn
  \/ TryRecv
  \/ DropRunner
  \/ EnvEvent

SpecWatch == InitWatch /\ [][NextWatch]_vars

\* A caller that starts the watcher and stops it, with the thread scheduled:
\* a step the thread can take is eventually taken.
NextStop ==
  \/ Start
  \/ ThreadStep
  \/ StopStore
  \/ StopJoin
  \/ EnvEvent

FairSpecStop == InitWatch /\ [][NextStop]_vars /\ WF_vars(ThreadStep)

\* A watcher that is started and stopped while events naming two candidates
\* arrive, every file of the watched directory complete and readable.
InitBurst ==
  /\ GenInit
  /\ ZipIdle
  /\ PairIdle
  /\ GuiIdle
  /\ WatchIdle([n \in WatchNames |-> {FileState("file", 1, TRUE)}])

NextBurst ==
  \/ Start
  \/ ThreadStep
  \/ StopStore
  \/ StopJoin
  \/ EnvBurst

SpecBurst == InitBurst /\ [][NextBurst]_vars

\* A watcher that start has accepted, its output directory being the watched
\* directory: every file there, the written archive too, is complete and
\* readable, the notifier reports what the packaging calls write, and the
\* caller stops the watcher at any moment.
InitSelf ==
  /\ GenInit
  /\ ZipIdle
  /\ PairIdle
  /\ GuiIdle
  /\ runner = "handle"
  /\ wcfg \in {c \in SelfConfigs : StartCheck(c) = "ok"}
  /\ tpc = "spawned"
  /\ stopFlag = FALSE
  /\ stopAt = None
  /\ rxAlive = TRUE
  /\ chan = << >>
  /\ sent = << >>
  /\ events = << >>
  /\ nEvents = 0
  /\ paths = << >>
  /\ fileEnv = [n \in WatchNames \cup {trim(c.output_ipa_name) : c \in SelfConfigs} |->
                  {FileState("file", 1, TRUE)}]
  /\ wait = NoWait

NextSelf ==
  \/ ThreadStep
  \/ StopStore
  \/ StopJoin
  \/ EnvEvent
  \/ EnvOwnOutput

SpecSelf == InitSelf /\ [][NextSelf]_vars

\* One call of wait_until_file_ready on a file that another process writes,
\* locks, removes and creates freely.
InitWait ==
  /\ GenInit
  /\ ZipIdle
  /\ PairIdle
  /\ GuiIdle
  /\ runner = "handle"
  /\ wcfg = WatchCfg(nGood)
  /\ tpc = "wait"
  /\ stopFlag = FALSE
  /\ stopAt = None
  /\ rxAlive = TRUE
  /\ chan = << >>
  /\ sent = << >>
  /\ events = << >>
  /\ nEvents = 0
  /\ paths = <<fRunnerZip>>
  /\ fileEnv = [NoFiles EXCEPT ![fRunnerZip] = {f \in FileStates : f.kind # "dir"}]
  /\ wait = WaitStart

NextWait == TWaitIter

SpecWait == InitWait /\ [][NextWait]_vars

\* The archive loop on its own: the walk yields any entry of a bundle, a file
\* with any content, and the loop body writes it.
InitArchive ==
  /\ GenInit
  /\ WatchIdle(NoFiles)
  /\ PairIdle
  /\ GuiIdle
  /\ zpc = "next"
  /\ znode = NoNode
  /\ zentry = NoEntry

NextArchive ==
  \/ ZipWalkNext
  \/ ZipAddFile
  \/ ZipAddDirectory
  \/ ZipLoopBack

SpecArchive == InitArchive /\ [][NextArchive]_vars

\* Two calls of generate_ipa started together on any two requests, their
\* steps interleaved in every way.
InitPair ==
  /\ GenInit
  /\ WatchIdle(NoFiles)
  /\ ZipIdle
  /\ GuiIdle
  /\ \E r1 \in FirstRequests, r2 \in SecondRequests :
        inv = [p \in Invocations |-> NoLocals(IF p = 1 THEN r1 ELSE r2)]
  /\ tmpDirs = [d \in TmpNames |-> NoDir]
  /\ outDir = [n \in PairNames |-> NoFile]

NextPair == \E p \in Invocations : PairStep(p) /\ UNCHANGED <<gvars, wvars, zvars, uvars>>

SpecPair == InitPair /\ [][NextPair]_vars

\* The GUI: entries are added and edited, and Generate is clicked.
NextGui ==
  \/ GuiAddApplication
  \/ GuiEdit
  \/ GuiSaveChanges
  \/ GuiGenerate
  \/ GenStep

SpecGui == Init /\ [][NextGui]_vars

\* The GUI's list and its dialogs: entries are added, edited and deleted, the
\* dialogs opened, confirmed and cancelled in any order.
NextDialogs ==
  \/ GuiAddApplication
  \/ GuiEdit
  \/ GuiSaveChanges
  \/ GuiCancelEdit
  \/ GuiDelete
  \/ GuiConfirmDelete
  \/ GuiCancelDelete

SpecDialogs == Init /\ [][NextDialogs]_vars

(***************************************************************************)
(* Properties of generate_ipa (specification Spec)                         *)
(***************************************************************************)

IoErrors == {"Io", "Zip", "WalkDir", "TempDir", "PayloadCreationFailed",
             "MoveToPayloadFailed"}

sDotApp == << ".", "a", "p", "p" >>

\* The bundle directories of a tree as the specification describes them: a
\* directory at depth 1 to 3 named <name>.app that directly holds Info.plist.
BundleDirs(tree) ==
  {n.path : n \in {m \in tree :
     /\ m.dir
     /\ Len(m.path) <= 3
     /\ ends_with(FileName(m.path), sDotApp)
     /\ Len(FileName(m.path)) > Len(sDotApp)
     /\ \E k \in tree : k.path = m.path \o <<sInfoPlist>>}}

\* The archive the call returned, as the file of that name in output_dir.
ReturnedArchive == CHOOSE f \in OutFile(outFiles, gresult.path) : TRUE

HasEntry(entries, name, isDir) ==
  \E i \in 1..Len(entries) : entries[i].name = name /\ entries[i].dir = isDir

\* C1: when generate_ipa has returned, with a path or with any error, neither
\* the extraction directory nor the build directory exists any more.
C1_ScratchRemovedOnReturn ==
  gpc = "returned" => extractDir.state # "exists" /\ buildDir.state # "exists"

\* A call that created both directories, failed at the last step, and has
\* returned with both removed.
C1_Witness ==
  /\ gpc = "returned"
  /\ gresult.err = "InvalidIpaStructure"
  /\ extractDir.state = "removed"
  /\ buildDir.state = "removed"

\* C2: when generate_ipa returns the invalid-name error, no filesystem work
\* has been done by the call: no scratch directory was created, nothing was
\* extracted or copied, no output file written.
C2_InvalidNameBeforeAnyWork ==
  (gpc = "returned" /\ gresult.err = "InvalidIpaName")
    => /\ fsWork = {}
       /\ extractDir.state = "none"
       /\ buildDir.state = "none"
       /\ outFiles = outBefore

\* C3: when generate_ipa returns a path, the archive there has the directory
\* entry Payload/<bundle>/ and the file entry Payload/<bundle>/Info.plist,
\* <bundle> being the name of the located bundle directory.
C3_SuccessHasBundleAndMarker ==
  (gpc = "returned" /\ gresult.ok)
    => /\ OutFile(outFiles, gresult.path) # {}
       /\ HasEntry(ReturnedArchive.entries,
                   sPayloadSlash \o FileName(bundle) \o <<"/">>, TRUE)
       /\ HasEntry(ReturnedArchive.entries,
                   sPayloadSlash \o FileName(bundle) \o <<"/">> \o sInfoPlist, FALSE)

\* C4: when the input unpacks (no I/O failure in the call) to a tree without a
\* bundle directory, the call returns UnexpectedZipStructure and output_dir
\* holds exactly what it held before the call.
C4_NoBundleNoOutput ==
  ( /\ gpc = "returned"
    /\ cfg.inputExists /\ cfg.outDirOk /\ cfg.zipOk
    /\ BundleDirs(cfg.tree) = {}
    /\ gresult.err \notin IoErrors )
    => gresult.err = "UnexpectedZipStructure" /\ outFiles = outBefore

\* A second call, on an archive whose only bundle lies at depth 4, returned
\* the error with the first call's output file in place.
C4_Witness ==
  /\ gpc = "returned"
  /\ cfg.tree = TreeDepth4
  /\ gresult.err = "UnexpectedZipStructure"
  /\ outFiles # {}
  /\ outFiles = outBefore

\* C5 as stated: the selected bundle is the smallest, in lexicographic path
\* order, of the bundle directories within the depth bound.
C5_SelectsLexicographicMin ==
  gpc = "mkBuild" =>
    \A c \in BundleDirs(extractDir.tree) : c = bundle \/ PathLess(bundle, c)

\* C5 as the code has it: the selected bundle is a bundle directory within
\* the depth bound, and the walk (a directory before its contents, siblings
\* in the order the directory listing gives them) meets it before every
\* other bundle directory.
C5_SelectsFirstInTraversal ==
  gpc = "mkBuild" =>
    /\ bundle \in BundleDirs(extractDir.tree)
    /\ \A c \in BundleDirs(extractDir.tree) :
         c = bundle \/ VisitedBefore(bundle, c, listing)

\* Two sibling bundles, B.app listed before A.app: B.app is selected.
C5_Witness ==
  /\ gpc = "mkBuild"
  /\ extractDir.tree = TreeTwo
  /\ bundle = <<sBApp>>
  /\ listing[sBApp] < listing[sAApp]

(***************************************************************************)
(* Properties of the watcher (SpecWatch, FairSpecStop, SpecWait)          *)
(***************************************************************************)

\* Where the thread is once the loop has been entered and not yet left.
LoopPcs == {"loop", "recv", "for", "filter", "wait", "gen", "final"}

LastSentIs(kind) == sent # << >> /\ sent[Len(sent)].kind = kind

\* C6: once the stop flag is set while the loop runs, the thread eventually
\* ends, and the last message it sent is "AutoCheck stopped.", delivered to
\* the channel.
C6_StopLeadsToStopped ==
  (stopFlag /\ tpc \in LoopPcs)
    ~> (tpc = "done" /\ LastSentIs("Stopped") /\ sent[Len(sent)].ok)

\* stop() has returned after a candidate was packaged; the last message is
\* "AutoCheck stopped.".
C6_Witness ==
  /\ runner = "stopped"
  /\ tpc = "done"
  /\ LastSentIs("Stopped")
  /\ \E i \in 1..Len(sent) : sent[i].kind = "Generated"

\* C7: after a send to a closed receiver has failed, no stability wait and no
\* packaging call is running.
C7_NoWorkAfterFailedSend ==
  (\E i \in 1..Len(sent) : ~sent[i].ok) => tpc \notin {"wait", "gen"}

\* C8: the wait returns ready only when the last two size reads gave the same
\* size and the file could be opened at the second of them; when every two
\* consecutive reads differ it never returns ready, and a wait that has ended
\* without ready has ended by the timeout, with the time limit used up.
C8_ReadyOnlyWhenStable ==
  /\ wait.result = "ready"
       => wait.reads = 2 /\ wait.hPrev = wait.hLast /\ wait.hOpen
  /\ wait.allDiffer => wait.result # "ready"
  /\ wait.result = "timeout" => wait.elapsed >= MaxWaitSecs * 1000

\* A file read at two different sizes, and so on to the timeout.
C8_Witness ==
  /\ wait.result = "timeout"
  /\ wait.allDiffer
  /\ wait.reads = 2
  /\ wait.hPrev # wait.hLast

\* C9: a file that is there, openable and of one size at every read is
\* declared ready at the second read, after one sleep of the poll spacing
\* (so within two), and never times out.
C9_SteadyFileReadyAtSecondRead ==
  /\ (wait.steady /\ wait.reads >= 2)
       => wait.result = "ready" /\ wait.elapsed <= 2 * PollSleepMs
  /\ wait.steady => wait.result # "timeout"

\* A steady file, ready after the one sleep.
C9_Witness ==
  /\ wait.result = "ready"
  /\ wait.steady
  /\ wait.reads = 2
  /\ wait.elapsed = PollSleepMs

MatchingNames == { fRunnerZip, fUpperZip }

NonMatchingNames == { fNotesZip, fNoZip, fPrefixed, fPartial }

\* The filter on the names above, for a path in every state it can be in.
C10_FilterTable ==
  \A f \in FileStates :
     /\ \A n \in MatchingNames : is_candidate_runner_zip(n, f) <=> f.kind = "file"
     /\ \A n \in NonMatchingNames : ~is_candidate_runner_zip(n, f)

\* Every "Detected candidate" message names a matching path.
C10_Reported ==
  \A i \in 1..Len(sent) :
     sent[i].kind = "Detected" => sent[i].path \in MatchingNames

\* The step of the loop that applies the filter to the next path.
C10_FilterStep ==
  (tpc = "filter" /\ tpc' # "filter") =>
    /\ C10_FilterTable
    /\ LET p == Head(paths) IN
       IF p \in NonMatchingNames \/ \A f \in fileEnv[p] : f.kind # "file"
       THEN /\ tpc' = "for"
            /\ paths' = Tail(paths)
            /\ UNCHANGED <<sent, chan, wait, gpc, calls>>
       ELSE IF \A f \in fileEnv[p] : f.kind = "file"
       THEN /\ tpc' = "wait"
            /\ sent' = Append(sent, [kind |-> "Detected", path |-> p, ok |-> rxAlive])
       ELSE TRUE

\* C10: a path is a candidate exactly when it is an existing file whose name
\* in lower case starts with runner.app and ends with .zip; for any other
\* path the loop sends nothing, waits for nothing and packages nothing, and
\* for a candidate it sends "Detected candidate" and starts the wait.
C10_CandidateFilter == [][C10_Reported' /\ C10_FilterStep]_vars

\* notes.zip was passed over in silence and RUNNER.APP.ZIP, next in the same
\* event, was detected.
C10_Witness ==
  /\ \E i \in 1..Len(sent) : sent[i].kind = "Detected" /\ sent[i].path = fUpperZip
  /\ \A i \in 1..Len(sent) : sent[i].path # fNotesZip

(***************************************************************************)
(* Properties of AutoCheckRunner::start (SpecWatch)                        *)
(***************************************************************************)

IsBlank(s) == \A i \in 1..Len(s) : s[i] = " "

\* A configuration that start must refuse.
ConfigBad(c) ==
  \/ ~c.watchDirOk
  \/ ~c.outDirOk
  \/ IsBlank(c.app_name)
  \/ IsBlank(c.output_ipa_name)
  \/ Len(c.output_ipa_name) < 4
  \/ to_lowercase(SubSeq(c.output_ipa_name, Len(c.output_ipa_name) - 3,
                         Len(c.output_ipa_name))) # sDotIpa
  \/ \E i \in 1..Len(c.output_ipa_name) : c.output_ipa_name[i] \in {"/", "\\"}

\* C11: start returns an error, with no thread spawned, no channel and no
\* message, exactly when the configuration fails one of the checks; it
\* returns a handle, with the thread spawned, only when all of them pass.
C11_StartChecks ==
  /\ runner = "error"
       => /\ ConfigBad(wcfg)
          /\ tpc = "none" /\ ~rxAlive /\ sent = << >> /\ chan = << >>
  /\ runner \notin {"none", "error"} => ~ConfigBad(wcfg) /\ tpc # "none"

\* start was refused for a blank display name alone.
C11_Witness ==
  /\ runner = "error"
  /\ IsBlank(wcfg.app_name)
  /\ wcfg.watchDirOk /\ wcfg.outDirOk
  /\ wcfg.output_ipa_name = nGood

(***************************************************************************)
(* Properties of repeated and of successful calls (Spec)                   *)
(***************************************************************************)

\* A call has returned whose request is that of the call before it, which
\* returned a path; no I/O operation failed in either.
RepeatedCall == gpc = "returned" /\ prevCall = cfg /\ nFaults = 0

\* The file of the requested name before the call, and after it.
FileBefore == CHOOSE f \in OutFile(outBefore, trim(cfg.name)) : TRUE

FileAfter == CHOOSE f \in OutFile(outFiles, trim(cfg.name)) : TRUE

EntrySet(f) == {f.entries[i] : i \in 1..Len(f.entries)}

\* The second of two identical calls succeeds with a valid archive, and
\* output_dir holds one file of that name, the others being as they were.
RepeatOverwrites ==
  /\ gresult.ok
  /\ gresult.path = trim(cfg.name)
  /\ Cardinality(OutFile(outBefore, trim(cfg.name))) = 1
  /\ Cardinality(OutFile(outFiles, trim(cfg.name))) = 1
  /\ outFiles \ OutFile(outFiles, trim(cfg.name))
       = outBefore \ OutFile(outBefore, trim(cfg.name))
  /\ FileAfter.complete
  /\ HasPlistEntry(FileAfter.entries)

\* C12 as stated: the second of two identical calls succeeds, overwrites the
\* file of the first, and leaves it with the content the first gave it.
C12_RepeatSameContent ==
  RepeatedCall => RepeatOverwrites /\ FileAfter.entries = FileBefore.entries

\* C12 as the code has it: the second of two identical calls succeeds and
\* overwrites the file of the first; when the input has one bundle directory
\* the file holds the same entries as before, in the order of the second
\* call's walk.
C12_RepeatOverwritesSameEntries ==
  RepeatedCall =>
    /\ RepeatOverwrites
    /\ Cardinality(BundleDirs(cfg.tree)) = 1
         => EntrySet(FileAfter) = EntrySet(FileBefore)

\* Two identical calls on Runner.app whose walks listed the bundle's two
\* files in different orders.
C12_Witness ==
  /\ RepeatedCall
  /\ cfg.tree = TreeRunner
  /\ gresult.ok
  /\ EntrySet(FileAfter) = EntrySet(FileBefore)
  /\ FileAfter.entries # FileBefore.entries

\* C13 as stated: after a successful call the path returned is the requested
\* name, the file of that name is the one file output_dir did not hold
\* before, and everything it held before is still there.
C13_OneNewFileNamedAsRequested ==
  (gpc = "returned" /\ gresult.ok) =>
    /\ gresult.path = cfg.name
    /\ outFiles \ outBefore = OutFile(outFiles, cfg.name)
    /\ Cardinality(outFiles \ outBefore) = 1
    /\ outBefore \subseteq outFiles

\* C13 as the code has it: after a successful call the path returned is the
\* requested name without its surrounding blanks, output_dir holds one
\* finished file of that name (new, or written over the one that was there),
\* and every other file of output_dir is as it was.
C13_OneFileWritten ==
  (gpc = "returned" /\ gresult.ok) =>
    /\ gresult.path = trim(cfg.name)
    /\ Cardinality(OutFile(outFiles, gresult.path)) = 1
    /\ ReturnedArchive.complete
    /\ outFiles \ OutFile(outFiles, gresult.path)
         = outBefore \ OutFile(outBefore, gresult.path)

\* A call with the name " a.ipa " returned a.ipa, with b.ipa of an earlier
\* call still in output_dir.
C13_Witness ==
  /\ gpc = "returned"
  /\ gresult.ok
  /\ cfg.name = nPadded
  /\ gresult.path = nGood
  /\ OutFile(outBefore, nOther) # {}
  /\ OutFile(outFiles, nOther) = OutFile(outBefore, nOther)

\* The filesystem work of a call, in the order of the steps.
StepOrder == << "tempdir", "extract", "mkdir", "copy", "create", "write" >>

\* The errors of the checks of the request's fields.
RequestErrors == {"InputFileNotFound", "OutputDirectoryInvalid", "InvalidIpaName"}

\* C14: the work done by a call is that of the first steps of the pipeline,
\* in order and without a gap; a call that returns an error of the checks of
\* the request (the first step) has done none of it, one that returns the
\* bundle-not-found error has only extracted, and one whose archive fails
\* validation has done it all.
C14_StepsInOrderFailFast ==
  /\ \E k \in 0..Len(StepOrder) : fsWork = {StepOrder[i] : i \in 1..k}
  /\ gpc = "returned" =>
       /\ gresult.err \in RequestErrors => fsWork = {}
       /\ gresult.err = "UnexpectedZipStructure" => fsWork = {"tempdir", "extract"}
       /\ gresult.err = "InvalidIpaStructure" \/ gresult.ok
            => fsWork = {StepOrder[i] : i \in 1..Len(StepOrder)}

\* C15: when the build of the archive fails, the call returns an I/O error
\* (IpaError::Io, or IpaError::Zip when the zip writer reports the failure),
\* the unfinished file stays in output_dir under the requested name, and both
\* scratch directories are removed.
C15_BuildFailureLeavesPartialFile ==
  [][ (gpc = "build" /\ gpc' = "returned") =>
        /\ gresult'.err \in {"Io", "Zip"}
        /\ \E f \in outFiles' : f.name = trim(cfg.name) /\ ~f.complete
        /\ Cardinality({f \in outFiles' : f.name = trim(cfg.name)}) = 1
        /\ extractDir'.state = "removed"
        /\ buildDir'.state = "removed" ]_vars

\* The build failed after writing some entries: the unfinished file is in
\* output_dir, the scratch directories are gone.
C15_Witness ==
  /\ gpc = "returned"
  /\ gresult.err = "Io"
  /\ "write" \in fsWork
  /\ \E f \in OutFile(outFiles, trim(cfg.name)) : ~f.complete /\ Len(f.entries) > 0
  /\ extractDir.state = "removed"
  /\ buildDir.state = "removed"

\* Directory p of the tree has a name ending in .app, holds an entry
\* Info.plist, and lies at depth 1 to 3.
NamedAppWithMarker(tree, p) ==
  /\ \E n \in tree : n.path = p /\ n.dir
  /\ Len(p) \in 1..3
  /\ ends_with(p[Len(p)], sDotApp)
  /\ \E n \in tree : n.path = p \o <<sInfoPlist>>

\* C16: the bundle search selects only a directory at depth 1 to 3 whose name
\* ends with .app and which directly holds Info.plist; when the extracted
\* tree has no such directory (a bundle at depth 4 does not count) and the
\* walk itself does not fail, the call returns UnexpectedZipStructure.
C16_LocatorRule ==
  [][ gpc = "locate" =>
        /\ gpc' = "mkBuild" => NamedAppWithMarker(extractDir.tree, bundle')
        /\ ( /\ nFaults' = nFaults
             /\ \A n \in extractDir.tree : ~NamedAppWithMarker(extractDir.tree, n.path) )
             => gpc' = "returned" /\ gresult'.err = "UnexpectedZipStructure" ]_vars

\* The only bundle lay at depth 4: the search did not find it, and the call
\* ended there.
C16_Witness ==
  /\ gpc = "returned"
  /\ cfg.tree = TreeDepth4
  /\ gresult.err = "UnexpectedZipStructure"
  /\ fsWork = {"tempdir", "extract"}
  /\ bundle = << >>

(***************************************************************************)
(* Properties of the archive's entries (Spec)                              *)
(***************************************************************************)

\* The call that has returned had a request that passes every check, and no
\* I/O operation failed.
CleanCall ==
  /\ gpc = "returned"
  /\ cfg.inputExists /\ cfg.outDirOk /\ cfg.zipOk
  /\ ~NameInvalid(trim(cfg.name))
  /\ nFaults = 0

ContainsSeq(s, sub) ==
  \E i \in 1..(Len(s) - Len(sub) + 1) : SubSeq(s, i, i + Len(sub) - 1) = sub

DirEntry(name) == [name |-> name, dir |-> TRUE]

FileEntry(name) == [name |-> name, dir |-> FALSE]

sPayloadMyProject == sPayloadSlash \o sMyProjectApp \o <<"/">>

\* C17 as stated: for SomeFolder/MyProject.app the call succeeds, every entry
\* of the archive lies under Payload/MyProject.app/, the two files are there,
\* and no entry names SomeFolder.
C17_NestedAllUnderBundle ==
  (CleanCall /\ cfg.tree = TreeNested) =>
    /\ gresult.ok
    /\ \A e \in EntrySet(ReturnedArchive) : starts_with(e.name, sPayloadMyProject)
    /\ FileEntry(sPayloadMyProject \o sInfoPlist) \in EntrySet(ReturnedArchive)
    /\ FileEntry(sPayloadMyProject \o sMyProject) \in EntrySet(ReturnedArchive)
    /\ \A e \in EntrySet(ReturnedArchive) : ~ContainsSeq(e.name, sSomeFolder)

\* C17 as the code has it: for SomeFolder/MyProject.app the call succeeds and
\* the archive holds the directory entry Payload/ and, under
\* Payload/MyProject.app/, the bundle directory and its two files; no entry
\* names SomeFolder.
C17_NestedUnderPayload ==
  (CleanCall /\ cfg.tree = TreeNested) =>
    /\ gresult.ok
    /\ EntrySet(ReturnedArchive) =
         { DirEntry(sPayloadSlash), DirEntry(sPayloadMyProject),
           FileEntry(sPayloadMyProject \o sInfoPlist),
           FileEntry(sPayloadMyProject \o sMyProject) }
    /\ Len(ReturnedArchive.entries) = 4
    /\ \A e \in EntrySet(ReturnedArchive) :
         e.name = sPayloadSlash \/ starts_with(e.name, sPayloadMyProject)
    /\ \A e \in EntrySet(ReturnedArchive) : ~ContainsSeq(e.name, sSomeFolder)

\* The nested bundle was packaged.
C17_Witness ==
  /\ CleanCall
  /\ cfg.tree = TreeNested
  /\ gresult.ok
  /\ bundle = <<sSomeFolder, sMyProjectApp>>
  /\ ReturnedArchive.complete

sPayloadRunner == sPayloadSlash \o sRunnerApp \o <<"/">>

\* C18 as stated: for Runner.app with Info.plist and one other file at the
\* root of the input, the call succeeds and the archive holds the entries
\* Payload/Runner.app/Info.plist and Payload/Runner.app/Runner and no other.
C18_RunnerExactlyFiles ==
  (CleanCall /\ cfg.tree = TreeRunner) =>
    /\ gresult.ok
    /\ EntrySet(ReturnedArchive) =
         { FileEntry(sPayloadRunner \o sInfoPlist),
           FileEntry(sPayloadRunner \o sRunner) }

\* C18 as the code has it: the call succeeds, the file entries of the archive
\* are Payload/Runner.app/Info.plist and Payload/Runner.app/Runner, and beside
\* them it holds the directory entries Payload/ and Payload/Runner.app/; each
\* entry is there once.
C18_RunnerFilesAndDirs ==
  (CleanCall /\ cfg.tree = TreeRunner) =>
    /\ gresult.ok
    /\ {e \in EntrySet(ReturnedArchive) : ~e.dir} =
         { FileEntry(sPayloadRunner \o sInfoPlist),
           FileEntry(sPayloadRunner \o sRunner) }
    /\ {e \in EntrySet(ReturnedArchive) : e.dir} =
         { DirEntry(sPayloadSlash), DirEntry(sPayloadRunner) }
    /\ Len(ReturnedArchive.entries) = 4

\* Runner.app was packaged under a name given in upper case.
C18_Witness ==
  /\ CleanCall
  /\ cfg.tree = TreeRunner
  /\ cfg.name = nUpper
  /\ gresult.ok
  /\ HasEntry(ReturnedArchive.entries, sPayloadRunner \o sRunner, FALSE)

(***************************************************************************)
(* Properties of the archive loop (SpecArchive)                            *)
(***************************************************************************)

\* The loop body has just written an entry for the node the walk yielded.
EntryWritten == zpc = "end" /\ zentry # NoEntry

Octal(a, b, c) == a * 64 + b * 8 + c

Reversed(s) == [i \in 1..Len(s) |-> s[Len(s) + 1 - i]]

\* FE ED FA CE, FE ED FA CF and CA FE BA BE, byte by byte.
ExecutableMagics ==
  { <<254, 237, 250, 206>>, <<254, 237, 250, 207>>, <<202, 254, 186, 190>> }

\* The magic numbers and their byte-swapped forms.
RecognizedMagics == ExecutableMagics \cup {Reversed(m) : m \in ExecutableMagics}

StartsWithMagic(bytes) ==
  Len(bytes) >= 4 /\ SubSeq(bytes, 1, 4) \in RecognizedMagics

\* The file name is something, a dot, and dylib.
HasDylibExtension(path) ==
  LET name == path[Len(path)]
  IN  ends_with(name, <<".">> \o sDylib) /\ Len(name) > Len(sDylib) + 1

\* C19: every file entry is deflate-compressed; its mode is 0755 if and only
\* if the file's first four bytes are one of the recognized magic numbers or
\* its extension is dylib; every other file, a file shorter than four bytes
\* without the dylib extension included, has mode 0644.
C19_FilePermissionPolicy ==
  (EntryWritten /\ ~znode.dir) =>
    /\ ~zentry.dir
    /\ zentry.method = "Deflated"
    /\ zentry.mode = Octal(7, 5, 5)
         <=> (StartsWithMagic(znode.bytes) \/ HasDylibExtension(znode.path))
    /\ ~(StartsWithMagic(znode.bytes) \/ HasDylibExtension(znode.path))
         => zentry.mode = Octal(6, 4, 4)
    /\ (Len(znode.bytes) < 4 /\ ~HasDylibExtension(znode.path))
         => zentry.mode = Octal(6, 4, 4)

\* Info.plist holding the byte-swapped magic number CF FA ED FE was written
\* with mode 0755.
C19_Witness ==
  /\ EntryWritten
  /\ znode.path = <<sPayload, sRunnerApp, sInfoPlist>>
  /\ znode.bytes = <<207, 250, 237, 254>>
  /\ zentry.mode = Perm0o755
  /\ zentry.method = "Deflated"

\* The pieces of a name between its forward slashes.
RECURSIVE SplitSlash(_)
SplitSlash(s) ==
  LET at == {i \in 1..Len(s) : s[i] = "/"} IN
  IF at = {} THEN <<s>>
  ELSE LET i == CHOOSE k \in at : \A j \in at : k <= j
       IN  <<SubSeq(s, 1, i - 1)>> \o SplitSlash(SubSeq(s, i + 1, Len(s)))

\* C20: every entry name written is the node's path relative to the build
\* scratch directory, its components joined with forward slashes; it is not
\* empty and begins with Payload/; a directory entry ends with exactly one
\* '/', is stored uncompressed and has mode 0755; a file entry does not end
\* with '/'.
C20_EntryNames ==
  EntryWritten =>
    /\ zentry.dir = znode.dir
    /\ SplitSlash(zentry.name) =
         (IF znode.dir THEN znode.path \o << << >> >> ELSE znode.path)
    /\ zentry.name # << >>
    /\ starts_with(zentry.name, sPayloadSlash)
    /\ zentry.dir =>
         /\ ends_with(zentry.name, <<"/">>)
         /\ ~ends_with(zentry.name, <<"/", "/">>)
         /\ zentry.method = "Stored"
         /\ zentry.mode = Octal(7, 5, 5)
    /\ ~zentry.dir => ~ends_with(zentry.name, <<"/">>)

\* The directory Frameworks of the bundle was written as
\* Payload/Runner.app/Frameworks/.
C20_Witness ==
  /\ EntryWritten
  /\ znode.dir
  /\ znode.path = <<sPayload, sRunnerApp, sFrameworks>>
  /\ zentry.name = sPayloadRunner \o sFrameworks \o <<"/">>
  /\ zentry.method = "Stored"

(***************************************************************************)
(* Properties of the archive build and of validation (Spec)                *)
(***************************************************************************)

\* The output file of the call in progress.
CallFile == CHOOSE f \in OutFile(outFiles, trim(cfg.name)) : TRUE

\* The name under which a node of the assembled tree belongs in the archive.
NodeName(n) == IF n.dir THEN JoinSlash(n.path) \o <<"/">> ELSE JoinSlash(n.path)

\* C21: when the archive build has finished, the archive holds exactly one
\* entry for each node of the assembled tree: no node is omitted and no entry
\* is there twice, so the entry names are the relative paths of the tree.
C21_OneEntryPerNode ==
  gpc = "validate" =>
    /\ {CallFile.entries[i].name : i \in 1..Len(CallFile.entries)}
         = {NodeName(n) : n \in buildDir.tree}
    /\ Len(CallFile.entries) = Cardinality(buildDir.tree)

\* The same, for the builds in which no I/O operation has failed.
C21_OneEntryPerNodeNoFailure ==
  (gpc = "validate" /\ nFaults = 0) =>
    /\ {CallFile.entries[i].name : i \in 1..Len(CallFile.entries)}
         = {NodeName(n) : n \in buildDir.tree}
    /\ Len(CallFile.entries) = Cardinality(buildDir.tree)

\* Some entry name starts with Payload/ and ends with .app/Info.plist.
ArchiveHasMarker(f) ==
  \E i \in 1..Len(f.entries) :
     LET name == f.entries[i].name
         tail == <<".">> \o sApp \o <<"/">> \o sInfoPlist
     IN  /\ Len(name) >= Len(sPayloadSlash)
         /\ \A k \in 1..Len(sPayloadSlash) : name[k] = sPayloadSlash[k]
         /\ Len(name) >= Len(tail)
         /\ \A k \in 1..Len(tail) : name[Len(name) - Len(tail) + k] = tail[k]

\* The validation step of a call whose archive is read without an I/O error.
ValidationStep == gpc = "validate" /\ gpc' = "returned" /\ nFaults' = nFaults

\* C22: validation succeeds if and only if the archive holds an entry whose
\* name starts with Payload/ and ends with .app/Info.plist; when no entry
\* matches, generate_ipa returns InvalidIpaStructure instead of the path.
C22_ValidationRule ==
  [][ /\ ValidationStep =>
           /\ gresult'.ok <=> ArchiveHasMarker(CallFile)
           /\ gresult'.ok => gresult'.path = trim(cfg.name)
           /\ ~ArchiveHasMarker(CallFile) =>
                 gresult' = Err("InvalidIpaStructure")
      /\ (gpc = "validate" /\ gresult'.ok) => ArchiveHasMarker(CallFile)
    ]_vars

\* An archive without the marker was written and the call returned
\* InvalidIpaStructure.
C22_Witness ==
  /\ gpc = "returned"
  /\ gresult = Err("InvalidIpaStructure")
  /\ OutFile(outFiles, trim(cfg.name)) # {}
  /\ CallFile.complete
  /\ ~ArchiveHasMarker(CallFile)

\* The call in progress has created nothing and changed nothing.
NothingDone ==
  /\ fsWork = {}
  /\ extractDir = NoDir
  /\ buildDir = NoDir
  /\ outFiles = outBefore

\* C23: when the source archive does not exist the call returns
\* InputFileNotFound, and when the output directory is not a directory it
\* returns OutputDirectoryInvalid, in both cases without having created a
\* scratch directory and with the output directory as it was.
C23_RequestPathsCheckedFirst ==
  /\ (gpc # "idle" /\ ~cfg.inputExists) =>
        /\ NothingDone
        /\ gpc \in {"check", "returned"}
        /\ gpc = "returned" => gresult = Err("InputFileNotFound")
  /\ (gpc # "idle" /\ cfg.inputExists /\ ~cfg.outDirOk) =>
        /\ NothingDone
        /\ gpc \in {"check", "returned"}
        /\ gpc = "returned" => gresult = Err("OutputDirectoryInvalid")

\* A second call, made after a first one left a file, found the output
\* directory invalid and returned with the file still there.
C23_Witness ==
  /\ gpc = "returned"
  /\ ~cfg.outDirOk
  /\ gresult = Err("OutputDirectoryInvalid")
  /\ outFiles # {}
  /\ NothingDone

(***************************************************************************)
(* Properties of the watcher's loop (SpecWatch, FairSpecStop)              *)
(***************************************************************************)

\* The messages sent with kind k, as positions of `sent`.
SentOf(k) == {i \in 1..Len(sent) : sent[i].kind = k}

\* The thread leaves a stability wait that ended by timeout.
TimeoutStep == tpc = "wait" /\ wait.result = "timeout" /\ tpc' # "wait"

\* C24: when the stability wait of a candidate ends by timeout, generate_ipa
\* is not called for it, exactly one "Skipped (not ready)" message naming it
\* is sent, and the loop goes on with the paths that follow it in the event,
\* the events still queued being kept.
C24_TimeoutSkips ==
  [][ /\ wait.result = "timeout" => (tpc = "wait" /\ gpc = "idle")
      /\ TimeoutStep =>
           /\ gpc' = "idle"
           /\ calls' = calls
           /\ outFiles' = outFiles
           /\ Len(sent') = Len(sent) + 1
           /\ sent'[Len(sent')].kind = "Skipped"
           /\ sent'[Len(sent')].path = Head(paths)
           /\ SubSeq(sent', 1, Len(sent)) = sent
           /\ tpc' = "for"
           /\ paths' = Tail(paths)
           /\ events' = events
    ]_vars

\* A candidate was skipped after a timeout and a candidate reported by a later
\* event was detected after that.
C24_Witness ==
  \E i \in SentOf("Skipped") : \E j \in SentOf("Detected") :
     /\ i < j
     /\ sent[i].path = fRunnerZip
     /\ gpc = "idle"

\* The thread takes the result of a packaging call that failed.
FailedCallStep == tpc = "gen" /\ gpc = "returned" /\ ~gresult.ok /\ tpc' # "gen"

\* C25: a packaging call that fails does not stop the watcher.  The thread
\* sends "Generation error" for the candidate and is back in the loop over
\* the paths, with the rest of the paths and the queued events kept and the
\* stop flag as it was; it goes from the loop to its last message only with
\* the stop flag set, and ends without that message only when the notifier
\* could not be set up.
C25_FailureDoesNotStop ==
  [][ /\ FailedCallStep =>
           /\ sent' = Append(sent, [kind |-> "GenerationError",
                                    path |-> Head(paths), ok |-> rxAlive])
           /\ tpc' = "for"
           /\ paths' = Tail(paths)
           /\ events' = events
           /\ stopFlag' = stopFlag
           /\ runner' = runner
      /\ tpc' = "final" => (tpc \in {"loop", "final"} /\ stopFlag)
      /\ (tpc # "done" /\ tpc' = "done") => tpc \in {"init", "watch", "final"}
    ]_vars

\* A packaging call failed, and a candidate of a later event was detected,
\* waited for and packaged.
C25_Witness ==
  \E i \in SentOf("GenerationError") : \E j \in SentOf("Detected") :
     \E k \in SentOf("Generated") :
        /\ i < j
        /\ j < k
        /\ sent[j].path = sent[k].path
        /\ tpc \in LoopPcs

OutcomeKinds == {"Generated", "GenerationError"}

\* The thread has ended after the loop, the outcome of its last packaging
\* call sent before "AutoCheck stopped." and nothing between or after them.
StoppedAfterOutcome ==
  /\ tpc = "done"
  /\ gpc = "idle"
  /\ Len(sent) >= 2
  /\ sent[Len(sent)].kind = "Stopped"
  /\ sent[Len(sent) - 1].kind \in OutcomeKinds

\* C26 (progress): when the stop flag is set while a packaging call is in
\* flight, the call runs to its return, its outcome message is sent, and
\* then "AutoCheck stopped." is sent and the thread ends.
C26_StopWaitsForCall ==
  (stopFlag /\ tpc = "gen") ~> StoppedAfterOutcome

\* C26 (order): the thread leaves a packaging call only when generate_ipa
\* has returned, and by sending its outcome; no message follows "AutoCheck
\* stopped."; and stop() has returned only when the thread has ended with no
\* call in flight.
C26_CallNotInterrupted ==
  [][ /\ (tpc = "gen" /\ tpc' # "gen") =>
           /\ gpc = "returned"
           /\ Len(sent') = Len(sent) + 1
           /\ sent'[Len(sent')].kind =
                (IF gresult.ok THEN "Generated" ELSE "GenerationError")
      /\ (tpc = "gen" /\ gpc # "returned") => gpc' # "idle"
      /\ LastSentIs("Stopped") => sent' = sent
      /\ runner' = "stopped" => (tpc' = "done" /\ gpc' = "idle")
    ]_vars

\* C26: both of the above.
C26_StopDuringCall == C26_CallNotInterrupted /\ C26_StopWaitsForCall

\* stop() has stored the flag and waits in join while generate_ipa, called
\* by the thread, is writing the archive.
C26_Witness ==
  /\ runner = "joining"
  /\ stopFlag
  /\ tpc = "gen"
  /\ gpc = "build"

(***************************************************************************)
(* Failures and what becomes of them (Spec)                                *)
(***************************************************************************)

\* C27, for the pipeline: a failure met during a call of generate_ipa makes
\* the call return an error; so a first call that returned the archive path
\* met no failure.
C27_NoFailureSwallowed ==
  (gpc = "returned" /\ calls = 1 /\ gresult.ok) => nFaults = 0

\* The same, leaving out the failures of the walk of the archive build: a
\* failure of any other operation ends the call with an error at once.
C27_FailureEndsCallExceptWalk ==
  [][ (nFaults' > nFaults /\ gpc # "build") => (gpc' = "returned" /\ ~gresult'.ok)
    ]_vars

(***************************************************************************)
(* Properties of two calls running at once (SpecPair)                      *)
(***************************************************************************)

\* What a call with request r returns when it runs alone and nothing fails,
\* and the file it leaves under its name.
AloneBundle(r) == LocateBundle(r.tree, CHOOSE ord \in Orders(r.tree) : TRUE)

AloneResult(r) ==
  IF AloneBundle(r) = << >> THEN Err("UnexpectedZipStructure")
  ELSE IF NameInvalid(trim(r.name)) THEN Err("InvalidIpaName")
  ELSE Ok(trim(r.name))

AloneEntries(r) ==
  LET tree == PayloadTree(r.tree, AloneBundle(r))
      walk == BuildWalk(tree, CHOOSE ord \in Orders(tree) : TRUE, {})
  IN  {[name |-> NodeName(walk[i]), dir |-> walk[i].dir] : i \in 1..Len(walk)}

\* The file under the name of call p is the archive that p alone leaves
\* there (a call that fails alone writes no file).
FileAsAlone(p) ==
  LET r == inv[p].req
      f == outDir[trim(r.name)]
  IN  AloneResult(r).ok =>
        /\ f.state = "exists"
        /\ f.complete
        /\ {f.entries[i] : i \in 1..Len(f.entries)} = AloneEntries(r)
        /\ Len(f.entries) = Cardinality(AloneEntries(r))

\* The temporary directories a running call holds.
HeldDirs(p) ==
  IF inv[p].pc = "returned" THEN {} ELSE {inv[p].extract, inv[p].build} \ {0}

\* The calls do not interfere: they hold different temporary directories,
\* each holding what its own call put there, and a call that has returned has
\* returned what it returns alone and left the file it leaves alone.
NoInterference ==
  /\ HeldDirs(1) \cap HeldDirs(2) = {}
  /\ \A p \in Invocations :
       /\ inv[p].extract \in HeldDirs(p) =>
            tmpDirs[inv[p].extract].tree \subseteq inv[p].req.tree
       /\ inv[p].pc = "returned" =>
            /\ inv[p].result = AloneResult(inv[p].req)
            /\ FileAsAlone(p)

\* C28 as stated: two calls given different output file names do not
\* interfere.
C28_DifferentNamesIndependent ==
  inv[1].req.name # inv[2].req.name => NoInterference

\* C28 as the code has it: two calls whose output file names differ once
\* trimmed do not interfere.
C28_DifferentTrimmedNamesIndependent ==
  trim(inv[1].req.name) # trim(inv[2].req.name) => NoInterference

\* The first call has returned a.ipa, packaged from Runner.app, while the
\* second is in the middle of writing b.ipa from MyProject.app.
C28_Witness ==
  /\ inv[1].pc = "returned"
  /\ inv[1].result = Ok(nGood)
  /\ inv[1].req.tree = TreeRunner
  /\ inv[2].pc = "write"
  /\ inv[2].off = 2
  /\ inv[2].req = Req(TreeNested, nOther)
  /\ outDir[nOther].entries # << >>

(***************************************************************************)
(* One candidate at a time (SpecWatch)                                     *)
(***************************************************************************)

CandidateOutcomes == {"Skipped", "Generated", "GenerationError"}

\* C29: the watcher has at most one candidate in hand.  A stability wait or
\* a packaging call runs only for the path at the head of the event being
\* processed, the wait and the call never both; the message sent last is
\* then that candidate's "Detected candidate".  Every earlier "Detected
\* candidate" is followed at once by the outcome message of the same
\* candidate, so nothing is done for another path or event before it.
C29_OneCandidateAtATime ==
  /\ (wait.result # "none") <=> tpc = "wait"
  /\ (gpc # "idle") <=> tpc = "gen"
  /\ tpc \in {"wait", "gen"} =>
       /\ paths # << >>
       /\ LastSentIs("Detected")
       /\ sent[Len(sent)].path = Head(paths)
  /\ \A i \in SentOf("Detected") :
       IF i = Len(sent) THEN tpc \in {"wait", "gen"}
       ELSE /\ sent[i + 1].kind \in CandidateOutcomes
            /\ sent[i + 1].path = sent[i].path

\* A first candidate was skipped after its wait timed out, and the candidate
\* of the next event is being packaged.
C29_Witness ==
  /\ tpc = "gen"
  /\ gpc = "build"
  /\ Len(sent) >= 3
  /\ \E i \in SentOf("Detected") :
       i < Len(sent) /\ sent[i + 1].kind \in CandidateOutcomes

(***************************************************************************)
(* Properties of the application list (SpecGui)                            *)
(***************************************************************************)

\* The invariant of a request's output name: not empty, ending with .ipa in
\* any case, and without a path separator.
NameMeetsInvariant(name) ==
  /\ Len(name) > 0
  /\ Len(name) >= Len(sDotIpa)
  /\ to_lowercase(SubSeq(name, Len(name) - Len(sDotIpa) + 1, Len(name))) = sDotIpa
  /\ \A i \in 1..Len(name) : name[i] \notin {"/", "\\"}

\* C30: every output name the dialogs have stored meets the invariant, and
\* no call made by Generate is refused for its name.
C30_StoredNamesValid ==
  /\ \A i \in 1..Len(app_configs) : NameMeetsInvariant(app_configs[i])
  /\ gresult.err # "InvalidIpaName"

\* What the dialogs do keep out: every stored name is not blank and ends
\* with .ipa in lower case.
C30_StoredNamesEndWithIpa ==
  \A i \in 1..Len(app_configs) :
     app_configs[i] # << >> /\ ends_with(app_configs[i], sDotIpa)

(***************************************************************************)
(* What the loop still does once stop() has stored the flag (SpecBurst)    *)
(***************************************************************************)

\* The messages of the thread's start-up and end, which are not about an
\* event or a path.
FrameKinds == {"Started", "InitError", "StartError", "Stopped"}

IsLoopMessage(m) == m.kind \notin FrameKinds

\* The kinds of the messages about events and paths sent since stop()
\* stored the flag, in order.
KindsSinceStop ==
  LET since == SelectSeq(SubSeq(sent, stopAt + 1, Len(sent)), IsLoopMessage)
  IN  [i \in 1..Len(since) |-> since[i].kind]

\* What one candidate in hand at the store can still produce: its
\* "Detected candidate" when only the loop's flag check was behind it, and
\* its outcome.
OneCandidateKinds ==
  { << >>, <<"Detected">> }
    \cup { <<"Detected", o>> : o \in CandidateOutcomes }
    \cup { <<o>> : o \in CandidateOutcomes }

\* C31: once stop() has stored the flag, the loop starts no further path:
\* the messages sent from then on are those of at most one candidate, the
\* one that had passed the flag check (at most one "Detected candidate"),
\* and every other path and every queued event is dropped without a message.
C31_NothingNewAfterStop ==
  stopAt # None => KindsSinceStop \in OneCandidateKinds

\* The same, except that an event the notifier reports as an error is still
\* reported when recv_timeout returns it after the store: the messages sent
\* from then on are those of at most one candidate or one "Watcher event
\* error".
C31_OneCandidateOrOneError ==
  stopAt # None => KindsSinceStop \in OneCandidateKinds \cup { <<"EventError">> }

\* The flag was stored while the first of two candidates of one event was
\* being packaged: its outcome was sent, the second candidate was dropped
\* and the thread has ended.
C31_Witness ==
  /\ stopAt # None
  /\ tpc = "done"
  /\ LastSentIs("Stopped")
  /\ KindsSinceStop = <<"GenerationError">>
  /\ sent[stopAt].kind = "Detected"
  /\ sent[stopAt].path = fUpperZip

(***************************************************************************)
(* The order of the status messages (FairSpecStop)                         *)
(***************************************************************************)

\* Message i + 1 is the outcome of the candidate that message i announces.
OutcomeFollows(i) ==
  /\ i < Len(sent)
  /\ sent[i].kind = "Detected"
  /\ sent[i + 1].kind \in CandidateOutcomes
  /\ sent[i + 1].path = sent[i].path

\* Every "Detected candidate" but one just sent has the outcome of its path
\* right after it, and every outcome has the "Detected candidate" of its path
\* right before it.
DetectedAndOutcomePaired ==
  /\ \A i \in SentOf("Detected") : i = Len(sent) \/ OutcomeFollows(i)
  /\ \A j \in 1..Len(sent) :
       sent[j].kind \in CandidateOutcomes => (j > 1 /\ OutcomeFollows(j - 1))

LastSentIsOutcome == \E k \in CandidateOutcomes : LastSentIs(k)

\* C32: every "Detected candidate" is followed, before any other "Detected
\* candidate" and before "AutoCheck stopped.", by exactly one outcome message
\* of the same path ("Skipped (not ready)", "Generated" or "Generation
\* error"), and no outcome is sent without the "Detected candidate" of its
\* path before it.
C32_DetectedThenOneOutcome ==
  /\ [](DetectedAndOutcomePaired)
  /\ (LastSentIs("Detected") ~> LastSentIsOutcome)

\* The thread has ended after two candidates, one packaged and one refused.
C32_Witness ==
  /\ tpc = "done"
  /\ LastSentIs("Stopped")
  /\ \E i, j \in SentOf("Detected") :
       /\ i < j
       /\ {sent[i + 1].kind, sent[j + 1].kind} = {"Generated", "GenerationError"}

(***************************************************************************)
(* The first and the last status message (SpecWatch)                       *)
(***************************************************************************)

\* C33: the first message a started watcher sends is "AutoCheck started",
\* "AutoCheck stopped." is sent at most once and nothing is sent after it,
\* and once it is sent the thread has ended: no stability wait and no
\* packaging call is in progress or begins.
C33_StartedFirstStoppedLast ==
  /\ sent # << >> => sent[1].kind = "Started"
  /\ SentOf("Started") \subseteq {1}
  /\ SentOf("Stopped") \subseteq {Len(sent)}
  /\ SentOf("Stopped") # {} =>
       /\ tpc = "done"
       /\ wait.result = "none"
       /\ gpc = "idle"

\* stop() has returned after a run in which a candidate was handled, and the
\* caller has read every message.
C33_Witness ==
  /\ runner = "stopped"
  /\ chan = << >>
  /\ Len(sent) >= 4
  /\ sent[1].kind = "Started"
  /\ sent[2].kind = "Detected"
  /\ LastSentIs("Stopped")

(***************************************************************************)
(* After stop() has returned (SpecWatch)                                   *)
(***************************************************************************)

\* stop() has returned at least once and the runner still exists.
StopReturned == runner \in {"stopped", "stopping"}

\* A step of a second call of stop().
SecondStopStep == runner \in {"stopped", "stopping"} /\ runner' \in {"stopped", "stopping"}
                    /\ runner' # runner

\* C34: stop() returns only after the thread has ended: from then on no
\* packaging call and no stability wait is running, no message is sent or
\* added to the channel, which try_recv can only empty; a second call of
\* stop() changes nothing and can return at once; and the stop flag, once
\* set, stays set.
C34_AfterStopReturns ==
  /\ [](StopReturned =>
          /\ tpc = "done"
          /\ gpc = "idle"
          /\ wait.result = "none"
          /\ stopFlag)
  /\ [](runner = "stopping" => ENABLED StopAgainReturn)
  /\ [][ /\ stopFlag => stopFlag'
         /\ StopReturned =>
              /\ sent' = sent
              /\ chan' = chan \/ (chan # << >> /\ chan' = Tail(chan)) \/ runner' = "dropped"
              /\ chan = << >> => chan' = << >>
         /\ SecondStopStep =>
              UNCHANGED <<wcfg, tpc, stopFlag, stopAt, rxAlive, chan, sent, events,
                          nEvents, paths, fileEnv, wait, gvars>> ]_vars

\* stop() is called a second time while messages of a run that packaged a
\* candidate are still in the channel.
C34_Witness ==
  /\ runner = "stopping"
  /\ stopFlag
  /\ Len(chan) >= 2
  /\ \E i \in 1..Len(sent) : sent[i].kind = "Generated"

(***************************************************************************)
(* A watcher whose output directory is the watched directory (SpecSelf)    *)
(***************************************************************************)

\* C35: the watcher never packages its own output.  The file a packaging
\* call of an accepted watcher writes does not pass the candidate filter: no
\* "Detected candidate", no stability wait and no packaging call is ever for
\* it, and every packaging attempt is for a file named by an input event, so
\* there are no more attempts than events, also when the output directory is
\* the watched directory.
C35_NeverPackagesOwnOutput ==
  /\ ~NameMatches(OwnOutput)
  /\ ends_with(to_lowercase(OwnOutput), sDotIpa)
  /\ \A i \in SentOf("Detected") : sent[i].path # OwnOutput /\ sent[i].path \in WatchNames
  /\ tpc \in {"wait", "gen"} => Head(paths) # OwnOutput
  /\ Cardinality(SentOf("Detected")) <= nEvents

\* The archive runner.app.ipa was written into the watched directory, the
\* notifier reported it and the loop has taken that event without a message.
C35_Witness ==
  /\ wcfg.output_ipa_name = nRunnerIpa
  /\ OutFile(outFiles, nRunnerIpa) # {}
  /\ nEvents = 2
  /\ events = << >>
  /\ tpc = "recv"
  /\ paths = << >>
  /\ Len(sent) = 3
  /\ LastSentIs("Generated")

\* The output names the two name checks are compared on.
CheckedNames == OutputNames \cup {nRunnerIpa, nRunnerZipIpa, nRunnerZip}

\* C36: every output name start accepts is accepted by the name check of
\* generate_ipa, which trims it first: a packaging call made by a started
\* watcher never fails with InvalidIpaName.
C36_StartNamesPassNameCheck ==
  /\ \A n \in CheckedNames :
       StartCheck(WatchCfg(n)) = "ok" => ~NameInvalid(trim(n))
  /\ ~NameInvalid(trim(wcfg.output_ipa_name))
  /\ gpc = "returned" => gresult.err # "InvalidIpaName"

\* A watcher started with the name " Runner.app.zip.IPA" has passed the name
\* check of a packaging call and is writing the archive.
C36_Witness ==
  /\ wcfg.output_ipa_name = nRunnerZipIpa
  /\ tpc = "gen"
  /\ gpc = "build"
  /\ OutFile(outFiles, trim(nRunnerZipIpa)) # {}

(***************************************************************************)
(* The output directory of a call that fails early (Spec)                  *)
(***************************************************************************)

\* The errors of the steps before File::create.
EarlyErrors ==
  {"InputFileNotFound", "OutputDirectoryInvalid", "Zip", "Io", "TempDir", "WalkDir",
   "UnexpectedZipStructure", "PayloadCreationFailed", "MoveToPayloadFailed",
   "InvalidIpaName"}

\* C37: a call of generate_ipa that fails before it has created the output
\* file (missing input, invalid output directory, failed extraction, bundle
\* not found, failed payload copy, invalid name) leaves the output directory
\* as it was when the call started, an archive of the same name made by an
\* earlier call included, with its content.
C37_EarlyFailureLeavesOutputDir ==
  /\ (gpc # "idle" /\ "create" \notin fsWork) => outFiles = outBefore
  /\ (gpc = "returned" /\ "create" \notin fsWork) =>
        /\ ~gresult.ok
        /\ gresult.err \in EarlyErrors

\* A second call with the name of the first one's archive has failed for
\* want of a bundle, and the finished archive of the first call is still
\* there.
C37_Witness ==
  /\ gpc = "returned"
  /\ gresult.err = "UnexpectedZipStructure"
  /\ "create" \notin fsWork
  /\ prevCall # NoCall
  /\ \E f \in OutFile(outFiles, trim(cfg.name)) : f.complete /\ f.entries # << >>

(***************************************************************************)
(* Validation of an archive built without a failure (Spec)                 *)
(***************************************************************************)

\* The located bundle holds Info.plist as a regular file.
MarkerIsFile == bundle # << >> /\ File(bundle \o <<sInfoPlist>>) \in cfg.tree

\* C38: when the bundle was located with Info.plist a regular file and the
\* copy and the build met no I/O or walk error, validation succeeds: the
\* call does not return InvalidIpaStructure but the path of the archive,
\* whatever the bundle's name and its depth in the input.
C38_CleanBuildPassesValidation ==
  (gpc = "returned" /\ nFaults = 0 /\ MarkerIsFile)
     => /\ gresult.err # "InvalidIpaStructure"
        /\ "write" \in fsWork => gresult.ok

\* A bundle at depth 3 of the input was packaged without a failure and the
\* call has returned the archive's path.
C38_Witness ==
  /\ gpc = "returned"
  /\ gresult.ok
  /\ nFaults = 0
  /\ cfg.tree = TreeDepth3
  /\ Len(bundle) = 3
  /\ MarkerIsFile

(***************************************************************************)
(* The dialogs of the application list (SpecDialogs)                       *)
(***************************************************************************)

\* Save Changes has stored a name: the Edit dialog was closed and the list
\* differs.
SaveStored ==
  /\ show_edit_dialog_for_idx # None
  /\ show_edit_dialog_for_idx' = None
  /\ app_configs' # app_configs

\* Delete has removed an entry.
DeleteRemoved == Len(app_ids') < Len(app_ids)

IdsOf(ids) == {ids[i] : i \in 1..Len(ids)}

\* C39: whatever was added, opened, confirmed, saved and cancelled before,
\* Save Changes stores the name in the entry the Edit button was clicked on
\* and in no other one, and Delete removes the entry the Delete button was
\* clicked on and no other one.
C39_DialogsActOnSelectedEntry ==
  [][ /\ SaveStored =>
           \A i \in 1..Len(app_configs) :
              app_configs'[i] # app_configs[i] => app_ids[i] = editTarget
      /\ DeleteRemoved =>
           /\ deleteTarget \in IdsOf(app_ids)
           /\ IdsOf(app_ids') = IdsOf(app_ids) \ {deleteTarget} ]_vars

\* What holds for the deletion alone: Delete removes the entry the Delete
\* button was clicked on and no other one.
C39_DeleteActsOnSelectedEntry ==
  [][ DeleteRemoved =>
           /\ deleteTarget \in IdsOf(app_ids)
           /\ IdsOf(app_ids') = IdsOf(app_ids) \ {deleteTarget} ]_vars

=============================================================================
